---- MODULE Spec2Model ----
(***************************************************************************)
(* Model of the kanbn VS Code extension's shared file-system adapter, the  *)
(* per-board Kanbn instance manager and the custom-editor documents that   *)
(* use them.                                                               *)
(*                                                                         *)
(* Objects created with `new` (adapters, Kanbn instances, documents) are   *)
(* numbered from one counter, so that object identity can be compared.     *)
(* A JavaScript Map is a TLA+ function whose DOMAIN is the set of keys.    *)
(* A path is <<board, file>>: the board directory and the file under its   *)
(* .kanbn directory ("index" for .kanbn/index.md, a task id t for          *)
(* .kanbn/tasks/t.md).  Paths range over normal-form POSIX spellings.      *)
(***************************************************************************)
EXTENDS Integers, FiniteSets, Sequences, TLC

\* Number of objects (documents, adapters, Kanbn instances) one run may construct.
MaxObj == 6
\* Number of objects one run with file traffic may construct.
MaxFsObj == 3
\* Number of objects one run of the editors may construct.
MaxEdObj == 3
\* Number of change records of a document the host's undo stack is followed for.
MaxDepth == 1
\* Number of pieces of the raw paths resolveBoardPath is called with.
MaxRawLen == 3
\* Number of pieces of the strings that spell a document's path.
MaxSpellLen == 5

Boards == {"b1", "b2"}
TaskIds == {"t1"}
IndexFile == "index"
Contents == {"x", "y"}
FsErrors == {"", "EIO"}

Paths == Boards \X ({IndexFile} \cup TaskIds)

VARIABLES
  documentAdapters,  \* KanbnGlobalManager.documentAdapters: board -> {adapter, documentCallbacks}
  kanbnInstances,    \* KanbnGlobalManager.kanbnInstances: board -> Kanbn
  adapters,          \* heap of VscodeFileSystemAdapter objects: id -> [documentCallbacks]
  kanbns,            \* heap of adapter-backed Kanbn objects: id -> [boardPath, fs, via]
  buf,               \* heap of document objects: id -> _documentData
  nextId,            \* identity of the next object constructed
  docs,              \* the custom documents the host holds, by URI
  disk,              \* the real file system: path -> content
  ops,               \* the makeEdit calls and extension commands in flight
  records,           \* the host's undo stack of each document: the change records it holds
  debounced,         \* the debouncedEdit closure of each resolved task editor, with its timer
  last,              \* log: the adapter call the last step made and what it did
  signalled,         \* log: the documents whose webview refresh the last step started
  silent,            \* history: documents whose buffer a setter changed with no change record
  acquired,          \* history: what getKanbnForDocument returned for a board since it was registered
  tornDown           \* history: the objects cleanupDocument dropped from the registry

vars == <<documentAdapters, kanbnInstances, adapters, kanbns, buf, nextId, docs, disk,
          ops, records, debounced, last, signalled, silent, acquired, tornDown>>

\* ---------------------------------------------------------------- helpers

MapSet(m, k, v) == [x \in DOMAIN m \cup {k} |-> IF x = k THEN v ELSE m[x]]
MapDelete(m, k) == [x \in DOMAIN m \ {k} |-> m[x]]
EmptyMap == [x \in {} |-> 0]

\* path.dirname(path.dirname(path.dirname(uri.fsPath))) for a task,
\* path.dirname(path.dirname(uri.fsPath)) for the index
BoardPathOf(uri) == uri[1]
IndexUri(b) == <<b, IndexFile>>
TaskUris == {p \in Paths : p[2] \in TaskIds}
IndexUris == {p \in Paths : p[2] = IndexFile}

\* A getter/setter pair: the closures of a document object, or getKanbnForBoard's dummies.
DocCallbacks(obj) == [dummy |-> FALSE, obj |-> obj]
DummyCallbacks == [dummy |-> TRUE, obj |-> 0]

\* getDocumentContent(): () => new TextDecoder().decode(this._documentData), or () => ""
getContent(cb) == IF cb.dummy THEN "" ELSE buf[cb.obj]

\* The log when the last step was no adapter call. replaced: the callbacks a manager
\* call found registered for its path; listed: the paths a glob call returned.
NoCall == [op |-> "none", a |-> 0, path |-> <<>>, path2 |-> <<>>, live |-> {},
           ok |-> TRUE, value |-> "", error |-> "", setter |-> <<>>, fs |-> {},
           fsError |-> "", replaced |-> <<>>, listed |-> <<>>]

NoDoc == [obj |-> 0, kanbn |-> 0, resolved |-> FALSE]

\* ---------------------------------------------------------------- operations in flight

\* Who runs a task-store operation: the makeEdit a message handler of the document at
\* <<b, file>> started, the makeEdit the debounce timer of the task document at <<b, t>>
\* started, or the extension command running on board b. Of each the model follows one
\* at a time.
CommandSlot == "cmd"
TimerSlot(t) == t \o "#timer"
Owners == Boards \X ({IndexFile} \cup TaskIds \cup {CommandSlot}
                                \cup {TimerSlot(t) : t \in TaskIds})
CommandOwner(b) == <<b, CommandSlot>>
TimerOwner(uri) == <<uri[1], TimerSlot(uri[2])>>
\* The makeEdit calls: those of the message handlers and those of the timers.
EditOwners == Paths \cup {TimerOwner(uri) : uri \in TaskUris}
\* The document an owner's makeEdit belongs to.
DocOf(w) == IF w \in Paths THEN w ELSE CHOOSE uri \in TaskUris : TimerOwner(uri) = w

\* obj, label and before are those of a makeEdit call: the document object, the label
\* and oldDocumentData. io is the fs.promises.writeFile call the operation awaits, if
\* any: a sequence of one [path, data]. payload is the taskData the debounce timer
\* passed to the edit it started.
NoOp == [active |-> FALSE, kanbn |-> 0, wrote |-> FALSE, obj |-> 0, label |-> "",
         before |-> "", io |-> <<>>, payload |-> ""]

\* The makeEdit calls in flight on document object o.
EditsOn(o) == {w \in EditOwners : ops[w].active /\ ops[w].obj = o}
\* Those of them a debounce timer started.
TimerEdits(o) == EditsOn(o) \ Paths

\* The labels the message handlers give makeEdit: kanbn.blur and kanbn.save of the task
\* editor, kanbn.move and kanbn.sortColumn of the board editor.
UpdateLabel == "Update task content"
SaveLabel == "Save task"
MoveLabel == "Move task"
SortLabel == "Sort column"
LabelsOf(uri) == IF uri[2] = IndexFile THEN {MoveLabel, SortLabel} ELSE {UpdateLabel, SaveLabel}
\* The handlers that call updateWebview once their makeEdit has returned.
RefreshAfter(label) == label \in {SaveLabel, SortLabel}

\* ---------------------------------------------------------------- debounce

\* debounce(func, wait): `timeout` tells whether the closure's variable holds a handle,
\* `armed` whether the host timer behind the handle is still to fire. uri and kanbn are
\* what func reads from the document it closes over. cancelled is a history field: the
\* call last scheduled was cancelled before it fired. args is the taskData the armed
\* timer will call func with. stray tells whether a timer set earlier is still to fire
\* that the closure holds no handle of. replaced is a history field: the args of the
\* pending call that the call last scheduled took the place of, if any.
NewDebounce(uri, kanbn) ==
  [timeout |-> FALSE, armed |-> FALSE, uri |-> uri, kanbn |-> kanbn, cancelled |-> FALSE,
   args |-> "", stray |-> FALSE, replaced |-> <<>>]

\* What the closure would do if it set the new timer without clearing the old one.
schedule_withoutClear(d, args) ==
  [d EXCEPT !.timeout = TRUE, !.armed = TRUE, !.cancelled = FALSE, !.args = args,
            !.stray = d.stray \/ d.armed,
            !.replaced = IF d.armed THEN <<d.args>> ELSE <<>>]

\* debounced(...args): if (timeout) clearTimeout(timeout); timeout = setTimeout(...)
schedule(d, args) ==
  [d EXCEPT !.timeout = TRUE, !.armed = TRUE, !.cancelled = FALSE, !.args = args,
            !.stray = d.stray \/ (d.armed /\ ~d.timeout),
            !.replaced = IF d.armed THEN <<d.args>> ELSE <<>>]

\* What cancel would do if it dropped the handle without clearing the timer.
cancel_keepsTimer(d) ==
  IF d.timeout THEN [d EXCEPT !.timeout = FALSE, !.cancelled = d.armed] ELSE d

\* debounced.cancel(): if (timeout) { clearTimeout(timeout); timeout = null }
cancel(d) ==
  IF d.timeout
  THEN [d EXCEPT !.timeout = FALSE, !.armed = FALSE, !.cancelled = d.armed, !.args = ""]
  ELSE d

\* The host timer runs () => func(...args); `timeout` keeps the stale handle.
fire(d) == [d EXCEPT !.armed = FALSE, !.args = ""]

\* ---------------------------------------------------------------- change records

\* The host's undo stack of a document: the records it was handed and how many of them
\* are applied.
NoRecords == [stack |-> <<>>, cursor |-> 0]

\* What the snapshot would be if the array were allocated with the length only.
Snapshot_blank(data) == ""

\* new Uint8Array(this._documentData): a copy of the bytes
Snapshot(data) == data

\* The host is handed a record: the undone records above the cursor are dropped, and of
\* the stack the newest depth records are followed.
Push(r, rec, depth) ==
  LET all == Append(SubSeq(r.stack, 1, r.cursor), rec)
      kept == IF Len(all) > depth THEN SubSeq(all, Len(all) - depth + 1, Len(all)) ELSE all
  IN [stack |-> kept, cursor |-> Len(kept)]

\* ---------------------------------------------------------------- adapter registry

\* new VscodeFileSystemAdapter(documentUri, get, set): the primary document is registered.
\* via is a history field: who constructed the adapter.
NewAdapter(a, documentUri, cb, via) ==
  MapSet(adapters, a, [documentUri |-> documentUri, via |-> via,
                       documentCallbacks |-> MapSet(EmptyMap, documentUri, cb)])

\* What addDocumentCallbacks would do if the first registration of a path won.
addDocumentCallbacks_keepsFirst(a, documentUri, cb) ==
  IF documentUri \in DOMAIN adapters[a].documentCallbacks
  THEN adapters
  ELSE [adapters EXCEPT ![a].documentCallbacks = MapSet(@, documentUri, cb)]

addDocumentCallbacks(a, documentUri, cb) ==
  [adapters EXCEPT ![a].documentCallbacks = MapSet(@, documentUri, cb)]

\* What removeDocumentCallbacks would do if it emptied the map.
removeDocumentCallbacks_clearsAll(a, documentUri) ==
  [adapters EXCEPT ![a].documentCallbacks = EmptyMap]

\* What removeDocumentCallbacks would do if it left the entry in the map.
removeDocumentCallbacks_keepsEntry(a, documentUri) == adapters

removeDocumentCallbacks(a, documentUri) ==
  [adapters EXCEPT ![a].documentCallbacks = MapDelete(@, documentUri)]

\* ---------------------------------------------------------------- KanbnGlobalManager

\* The lookup as it would be per document: every new document misses.
HasAdapterInfo_perDocument(documentUri, boardPath) ==
  /\ boardPath \in DOMAIN documentAdapters
  /\ documentUri \in documentAdapters[boardPath].documentCallbacks

\* this.documentAdapters.get(boardPath)
HasAdapterInfo(documentUri, boardPath) == boardPath \in DOMAIN documentAdapters

\* The lookup as it would be per document: the instance is reused only for a document
\* already registered.
HasKanbn_perDocument(documentUri, boardPath) ==
  /\ boardPath \in DOMAIN kanbnInstances
  /\ boardPath \in DOMAIN documentAdapters
  /\ documentUri \in documentAdapters[boardPath].documentCallbacks

\* this.kanbnInstances.get(boardPath)
HasKanbn(documentUri, boardPath) == boardPath \in DOMAIN kanbnInstances

\* The value getKanbnForDocument returns, read off the state it leaves.
Returned(boardPath) == kanbnInstances'[boardPath]

getKanbnForDocument(documentUri, boardPath, cb) ==
  LET hasInfo == HasAdapterInfo(documentUri, boardPath)
      a == IF hasInfo THEN documentAdapters[boardPath].adapter ELSE nextId
      afterAdapter == IF hasInfo THEN nextId ELSE nextId + 1
      hasKanbn == HasKanbn(documentUri, boardPath)
      k == IF hasKanbn THEN kanbnInstances[boardPath] ELSE afterAdapter
      afterKanbn == IF hasKanbn THEN afterAdapter ELSE afterAdapter + 1
      keys == IF hasInfo THEN documentAdapters[boardPath].documentCallbacks ELSE {}
  IN /\ adapters' = IF hasInfo THEN addDocumentCallbacks(a, documentUri, cb)
                               ELSE NewAdapter(a, documentUri, cb, "manager")
     /\ documentAdapters' = MapSet(documentAdapters, boardPath,
                                   [adapter |-> a, documentCallbacks |-> keys \cup {documentUri}])
     /\ kanbns' = IF hasKanbn THEN kanbns
                  ELSE MapSet(kanbns, k, [boardPath |-> boardPath, fs |-> a, via |-> "manager"])
     /\ kanbnInstances' = MapSet(kanbnInstances, boardPath, k)
     /\ nextId' = afterKanbn
     /\ acquired' = [acquired EXCEPT ![boardPath] = @ \cup {<<k, a>>}]
     /\ UNCHANGED tornDown

\* The teardown as it would be if the Kanbn instance stayed cached.
DropBoard_keepsKanbn(boardPath) ==
  /\ documentAdapters' = MapDelete(documentAdapters, boardPath)
  /\ UNCHANGED kanbnInstances

\* The teardown as it would be if the board's entry stayed, with no document left.
DropBoard_keepsEntry(boardPath) ==
  /\ documentAdapters' = [documentAdapters EXCEPT ![boardPath].documentCallbacks = {}]
  /\ kanbnInstances' = MapDelete(kanbnInstances, boardPath)

\* The registry after the last document of boardPath is gone.
DropBoard(boardPath) ==
  /\ documentAdapters' = MapDelete(documentAdapters, boardPath)
  /\ kanbnInstances' = MapDelete(kanbnInstances, boardPath)

\* What cleanupDocument would do if it dropped the board whenever it is called.
cleanupDocument_dropsBoard(documentUri, boardPath) ==
  IF boardPath \in DOMAIN documentAdapters
  THEN LET info == documentAdapters[boardPath]
       IN /\ adapters' = IF documentUri \in info.documentCallbacks
                          THEN removeDocumentCallbacks(info.adapter, documentUri)
                          ELSE adapters
          /\ DropBoard(boardPath)
          /\ acquired' = [acquired EXCEPT ![boardPath] = {}]
          /\ tornDown' = tornDown \cup {info.adapter}
                           \cup (IF boardPath \in DOMAIN kanbnInstances
                                 THEN {kanbnInstances[boardPath]} ELSE {})
          /\ UNCHANGED <<kanbns, nextId>>
  ELSE UNCHANGED <<documentAdapters, kanbnInstances, adapters, kanbns, nextId,
                   acquired, tornDown>>

cleanupDocument(documentUri, boardPath) ==
  IF boardPath \in DOMAIN documentAdapters
  THEN LET info == documentAdapters[boardPath]
           registered == documentUri \in info.documentCallbacks
           remaining == info.documentCallbacks \ {documentUri}
       IN /\ adapters' = IF registered THEN removeDocumentCallbacks(info.adapter, documentUri)
                                       ELSE adapters
          /\ IF remaining = {}
             THEN /\ DropBoard(boardPath)
                  /\ acquired' = [acquired EXCEPT ![boardPath] = {}]
                  /\ tornDown' = tornDown \cup {info.adapter}
                                   \cup (IF boardPath \in DOMAIN kanbnInstances
                                         THEN {kanbnInstances[boardPath]} ELSE {})
             ELSE /\ documentAdapters' = [documentAdapters EXCEPT
                                            ![boardPath].documentCallbacks = remaining]
                  /\ UNCHANGED <<kanbnInstances, acquired, tornDown>>
          /\ UNCHANGED <<kanbns, nextId>>
  ELSE UNCHANGED <<documentAdapters, kanbnInstances, adapters, kanbns, nextId,
                   acquired, tornDown>>

\* extension.ts getKanbnForBoard: registers dummy callbacks under the board's index path
getKanbnForBoard(boardPath) ==
  getKanbnForDocument(IndexUri(boardPath), boardPath, DummyCallbacks)

\* ---------------------------------------------------------------- task editor documents

\* KanbnTaskEditorProvider.openCustomDocument -> KanbnTaskDocument.create
OpenTask(uri) ==
  /\ docs[uri].obj = 0
  /\ uri \in DOMAIN disk
  /\ docs' = [docs EXCEPT ![uri] = [obj |-> nextId, kanbn |-> 0, resolved |-> FALSE]]
  /\ buf' = MapSet(buf, nextId, disk[uri])
  /\ nextId' = nextId + 1
  /\ last' = NoCall
  /\ signalled' = {}
  /\ UNCHANGED <<documentAdapters, kanbnInstances, adapters, kanbns, disk, ops,
                 records, debounced, silent, acquired, tornDown>>

\* KanbnTaskEditorProvider.resolveCustomEditor: KanbnTaskDocument.initializeForWebview,
\* the debouncedEdit closure, the message handler and the first updateWebview
ResolveTask(uri) ==
  /\ docs[uri].obj # 0
  /\ ~docs[uri].resolved
  /\ getKanbnForDocument(uri, BoardPathOf(uri), DocCallbacks(docs[uri].obj))
  /\ docs' = [docs EXCEPT ![uri].kanbn = Returned(BoardPathOf(uri)), ![uri].resolved = TRUE]
  /\ debounced' = MapSet(debounced, docs[uri].obj,
                         NewDebounce(uri, Returned(BoardPathOf(uri))))
  /\ last' = NoCall
  /\ signalled' = {uri}
  /\ UNCHANGED <<buf, disk, ops, records, silent>>

\* KanbnTaskDocument.dispose, once no edit a message started is in flight. The timer of
\* debouncedEdit is not cleared: the document object stays reachable from the closure
\* while the timer is armed or an edit the timer started is in flight, and is
\* unreachable otherwise. The host drops the document's undo stack.
DisposeTask(uri) ==
  LET o == docs[uri].obj
      held == o \in DOMAIN debounced /\ (debounced[o].armed \/ TimerEdits(o) # {})
  IN /\ o # 0
     /\ ~ops[uri].active
     /\ cleanupDocument(uri, BoardPathOf(uri))
     /\ docs' = [docs EXCEPT ![uri] = NoDoc]
     /\ buf' = IF held THEN buf ELSE MapDelete(buf, o)
     /\ debounced' = IF held THEN debounced ELSE MapDelete(debounced, o)
     /\ records' = [records EXCEPT ![uri] = NoRecords]
     /\ silent' = silent \ {o}
     /\ last' = NoCall
     /\ signalled' = {}
     /\ UNCHANGED <<disk, ops>>

\* ---------------------------------------------------------------- board editor documents

\* KanbnBoardEditorProvider.openCustomDocument -> KanbnBoardDocument.create
OpenBoard(uri) ==
  /\ docs[uri].obj = 0
  /\ uri \in DOMAIN disk
  /\ docs' = [docs EXCEPT ![uri] = [obj |-> nextId, kanbn |-> 0, resolved |-> FALSE]]
  /\ buf' = MapSet(buf, nextId, disk[uri])
  /\ nextId' = nextId + 1
  /\ last' = NoCall
  /\ signalled' = {}
  /\ UNCHANGED <<documentAdapters, kanbnInstances, adapters, kanbns, disk, ops,
                 records, debounced, silent, acquired, tornDown>>

\* KanbnBoardEditorProvider.resolveCustomEditor -> KanbnBoardDocument.initializeForWebview:
\* a private adapter and a private Kanbn instance, not taken from the manager
ResolveBoard(uri) ==
  /\ docs[uri].obj # 0
  /\ ~docs[uri].resolved
  /\ adapters' = NewAdapter(nextId, uri, DocCallbacks(docs[uri].obj), "board")
  /\ kanbns' = MapSet(kanbns, nextId + 1,
                      [boardPath |-> BoardPathOf(uri), fs |-> nextId, via |-> "board"])
  /\ nextId' = nextId + 2
  /\ docs' = [docs EXCEPT ![uri].kanbn = nextId + 1, ![uri].resolved = TRUE]
  /\ last' = NoCall
  /\ signalled' = {uri}
  /\ UNCHANGED <<documentAdapters, kanbnInstances, buf, disk, ops, records, debounced,
                 silent, acquired, tornDown>>

\* KanbnBoardDocument.dispose, once no edit of the document is in flight: no manager
\* call; the document, its adapter and its Kanbn instance are unreachable afterwards.
\* The host drops the document's undo stack.
DisposeBoard(uri) ==
  /\ docs[uri].obj # 0
  /\ ~ops[uri].active
  /\ docs' = [docs EXCEPT ![uri] = NoDoc]
  /\ buf' = MapDelete(buf, docs[uri].obj)
  /\ silent' = silent \ {docs[uri].obj}
  /\ adapters' = IF docs[uri].resolved
                 THEN MapDelete(adapters, kanbns[docs[uri].kanbn].fs) ELSE adapters
  /\ kanbns' = IF docs[uri].resolved THEN MapDelete(kanbns, docs[uri].kanbn) ELSE kanbns
  /\ records' = [records EXCEPT ![uri] = NoRecords]
  /\ last' = NoCall
  /\ signalled' = {}
  /\ UNCHANGED <<documentAdapters, kanbnInstances, nextId, disk, ops, debounced, acquired,
                 tornDown>>

\* ---------------------------------------------------------------- extension commands

\* A command handler up to its first task-store call: const kanbn = getKanbnForBoard(board)
CommandStart(b) ==
  /\ ~ops[CommandOwner(b)].active
  /\ getKanbnForBoard(b)
  /\ ops' = [ops EXCEPT ![CommandOwner(b)] = [NoOp EXCEPT !.active = TRUE,
                                                            !.kanbn = Returned(b)]]
  /\ last' = NoCall
  /\ signalled' = {}
  /\ UNCHANGED <<buf, docs, disk, records, debounced, silent>>

\* The command handler returns (its task-store calls have settled or it gave up).
CommandDone(b) ==
  /\ ops[CommandOwner(b)].active
  /\ ops' = [ops EXCEPT ![CommandOwner(b)] = NoOp]
  /\ last' = NoCall
  /\ signalled' = {}
  /\ UNCHANGED <<documentAdapters, kanbnInstances, adapters, kanbns, buf, nextId, docs,
                 disk, records, debounced, silent, acquired, tornDown>>

\* fileWatcher.onDidChange: getKanbnForBoard(boardLocation), then a status bar refresh
FileWatcherChange(b) ==
  /\ getKanbnForBoard(b)
  /\ last' = NoCall
  /\ signalled' = {}
  /\ UNCHANGED <<buf, docs, disk, ops, records, debounced, silent>>

\* ---------------------------------------------------------------- adapter calls

\* The outcome of an adapter call is a record: which of the call's paths were live, the
\* result or error, the setter calls made and the fs.promises primitives invoked.
IsLive(a, filePath) == filePath \in DOMAIN adapters[a].documentCallbacks
LivePaths(a, ps) == {p \in ps : IsLive(a, p)}
Call(op, a, filePath) ==
  [NoCall EXCEPT !.op = op, !.a = a, !.path = filePath, !.live = LivePaths(a, {filePath})]
Enoent(exists) == IF exists THEN "" ELSE "ENOENT"

\* fileExistsMap and fileContentMap are never written by the disk-backed adapters, so
\* their lookups always miss and every call on a path with no callbacks goes to fs.promises.
\* What access would do if it probed the disk for every path.
access_probesDisk(a, filePath) ==
  [Call("access", a, filePath) EXCEPT !.fs = {<<"access", filePath>>},
                                      !.ok = filePath \in DOMAIN disk,
                                      !.error = Enoent(filePath \in DOMAIN disk)]

access(a, filePath) ==
  IF IsLive(a, filePath)
  THEN Call("access", a, filePath)
  ELSE [Call("access", a, filePath) EXCEPT !.fs = {<<"access", filePath>>},
                                           !.ok = filePath \in DOMAIN disk,
                                           !.error = Enoent(filePath \in DOMAIN disk)]

readFile(a, filePath) ==
  IF IsLive(a, filePath)
  THEN [Call("readFile", a, filePath) EXCEPT
          !.value = getContent(adapters[a].documentCallbacks[filePath])]
  ELSE [Call("readFile", a, filePath) EXCEPT
          !.fs = {<<"readFile", filePath>>},
          !.ok = filePath \in DOMAIN disk,
          !.value = IF filePath \in DOMAIN disk THEN disk[filePath] ELSE "",
          !.error = Enoent(filePath \in DOMAIN disk)]

\* What writeFile would do if it wrote the disk for a live path as well.
writeFile_writesThrough(a, filePath, data, fsError) ==
  [Call("writeFile", a, filePath) EXCEPT
     !.value = data,
     !.setter = IF IsLive(a, filePath)
                THEN <<[cb |-> adapters[a].documentCallbacks[filePath], data |-> data]>>
                ELSE <<>>,
     !.fs = {<<"writeFile", filePath>>},
     !.fsError = fsError,
     !.ok = (fsError = ""),
     !.error = fsError]

\* What writeFile would do if its catch block only logged the error.
writeFile_swallowsError(a, filePath, data, fsError) ==
  IF IsLive(a, filePath)
  THEN [Call("writeFile", a, filePath) EXCEPT
          !.value = data,
          !.setter = <<[cb |-> adapters[a].documentCallbacks[filePath], data |-> data]>>]
  ELSE [Call("writeFile", a, filePath) EXCEPT
          !.value = data,
          !.fs = {<<"writeFile", filePath>>},
          !.fsError = fsError]

\* fsError: what fs.promises.writeFile rejects with, "" when it resolves. The catch
\* block logs the error and throws it again.
writeFile(a, filePath, data, fsError) ==
  IF IsLive(a, filePath)
  THEN [Call("writeFile", a, filePath) EXCEPT
          !.value = data,
          !.setter = <<[cb |-> adapters[a].documentCallbacks[filePath], data |-> data]>>]
  ELSE [Call("writeFile", a, filePath) EXCEPT
          !.value = data,
          !.fs = {<<"writeFile", filePath>>},
          !.fsError = fsError,
          !.ok = (fsError = ""),
          !.error = fsError]

rename(a, oldPath, newPath) ==
  [Call("rename", a, oldPath) EXCEPT
     !.path2 = newPath,
     !.live = LivePaths(a, {oldPath, newPath}),
     !.fs = {<<"rename", oldPath>>, <<"rename", newPath>>},
     !.ok = oldPath \in DOMAIN disk,
     !.error = Enoent(oldPath \in DOMAIN disk)]

\* ENOENT from fs.promises.unlink is swallowed.
unlink(a, filePath) ==
  [Call("unlink", a, filePath) EXCEPT !.fs = {<<"unlink", filePath>>}]

\* setContent(data): this._documentData = new TextEncoder().encode(content), or () => {}
BufAfter(out) ==
  IF out.setter # <<>> /\ ~out.setter[1].cb.dummy
  THEN [buf EXCEPT ![out.setter[1].cb.obj] = out.setter[1].data]
  ELSE buf

\* The directory of a path given as the sequence of its segments, and the directories
\* above it below the board directory, which exists.
Parent(p) == SubSeq(p, 1, Len(p) - 1)
Ancestors(p) == {SubSeq(p, 1, n) : n \in 2..(Len(p) - 1)}

\* The real file system after the primitives an adapter call invoked.
DiskAfter(out) ==
  CASE out.op = "rename" /\ out.ok /\ out.path # out.path2 ->
         MapSet(MapDelete(disk, out.path), out.path2, disk[out.path])
    [] out.op = "unlink" /\ <<"unlink", out.path>> \in out.fs -> MapDelete(disk, out.path)
    [] out.op = "mkdir" /\ out.ok /\ out.path \notin DOMAIN disk ->
         [p \in DOMAIN disk \cup {out.path} \cup Ancestors(out.path) |->
            IF p \in DOMAIN disk THEN disk[p] ELSE "<dir>"]
    [] out.op = "writeFile" /\ <<"writeFile", out.path>> \in out.fs /\ out.fsError = "" ->
         MapSet(disk, out.path, out.value)
    [] OTHER -> disk

\* The document object whose buffer the call's setter changed, if any.
Changed(out) ==
  IF out.setter # <<>> /\ ~out.setter[1].cb.dummy
     /\ buf[out.setter[1].cb.obj] # out.setter[1].data
  THEN {out.setter[1].cb.obj}
  ELSE {}

OpenObjects == {docs[p].obj : p \in Paths} \ {0}

\* Owner w's task-store operation makes an adapter call with outcome out.
Perform(w, out) ==
  LET changed == Changed(out)
      covered == UNION {EditsOn(o) : o \in changed}
  IN /\ last' = out
     /\ buf' = BufAfter(out)
     /\ disk' = DiskAfter(out)
     /\ ops' = [v \in Owners |-> IF v \in covered THEN [ops[v] EXCEPT !.wrote = TRUE]
                                  ELSE ops[v]]
     /\ silent' = silent \cup {o \in changed \cap OpenObjects : EditsOn(o) = {}}
     /\ signalled' = {}
     /\ UNCHANGED <<documentAdapters, kanbnInstances, adapters, kanbns, nextId, docs,
                    records, debounced, acquired, tornDown>>

\* An operation in flight calls the adapter of the Kanbn instance it holds.
Running(w) == ops[w].active
AdapterOf(w) == kanbns[ops[w].kanbn].fs
PathsOf(w) == {p \in Paths : BoardPathOf(p) = kanbns[ops[w].kanbn].boardPath}

Access(w, p) == Running(w) /\ p \in PathsOf(w) /\ Perform(w, access(AdapterOf(w), p))
ReadFile(w, p) == Running(w) /\ p \in PathsOf(w) /\ Perform(w, readFile(AdapterOf(w), p))
WriteFile(w, p, c, fsError) ==
  /\ Running(w)
  /\ p \in PathsOf(w)
  /\ (IsLive(AdapterOf(w), p) => fsError = "")
  /\ Perform(w, writeFile(AdapterOf(w), p, c, fsError))
Rename(w, p, q) ==
  Running(w) /\ p \in PathsOf(w) /\ q \in PathsOf(w) /\ Perform(w, rename(AdapterOf(w), p, q))
Unlink(w, p) == Running(w) /\ p \in PathsOf(w) /\ Perform(w, unlink(AdapterOf(w), p))

\* ---------------------------------------------------------------- makeEdit, save, revert

\* makeEdit(label, editCallback) up to `await editCallback()`, with the first
\* task-store call of the callback started.
makeEdit(o, kanbn, label) ==
  [NoOp EXCEPT !.active = TRUE, !.kanbn = kanbn, !.obj = o, !.label = label,
               !.before = Snapshot(buf[o])]

\* A kanbn.blur or kanbn.save message of a task editor, a kanbn.move or kanbn.sortColumn
\* message of a board editor: debouncedEdit.cancel() in the task editor, then makeEdit.
MakeEditBegin(uri, label) ==
  /\ docs[uri].resolved
  /\ label \in LabelsOf(uri)
  /\ ~ops[uri].active
  /\ ops' = [ops EXCEPT ![uri] = makeEdit(docs[uri].obj, docs[uri].kanbn, label)]
  /\ debounced' = IF uri \in TaskUris
                  THEN [debounced EXCEPT ![docs[uri].obj] = cancel(@)]
                  ELSE debounced
  /\ last' = NoCall
  /\ signalled' = {}
  /\ UNCHANGED <<documentAdapters, kanbnInstances, adapters, kanbns, buf, nextId, docs,
                 disk, records, silent, acquired, tornDown>>

\* A kanbn.textChange message of a task editor: debouncedEdit(label, taskData)
TextChange(uri, taskData) ==
  /\ uri \in TaskUris
  /\ docs[uri].resolved
  /\ debounced' = [debounced EXCEPT ![docs[uri].obj] = schedule(@, taskData)]
  /\ last' = NoCall
  /\ signalled' = {}
  /\ UNCHANGED <<documentAdapters, kanbnInstances, adapters, kanbns, buf, nextId, docs,
                 disk, ops, records, silent, acquired, tornDown>>

\* The timer of the debouncedEdit closure of document object o fires: func(...args)
\* calls document.makeEdit, whether or not the document was disposed meanwhile.
TimerFire(o) ==
  /\ o \in DOMAIN debounced
  /\ debounced[o].armed
  /\ ~ops[TimerOwner(debounced[o].uri)].active
  /\ debounced' = [debounced EXCEPT ![o] = fire(@)]
  /\ ops' = [ops EXCEPT ![TimerOwner(debounced[o].uri)] =
                          [makeEdit(o, debounced[o].kanbn, UpdateLabel) EXCEPT
                             !.payload = debounced[o].args]]
  /\ last' = NoCall
  /\ signalled' = {}
  /\ UNCHANGED <<documentAdapters, kanbnInstances, adapters, kanbns, buf, nextId, docs,
                 disk, records, silent, acquired, tornDown>>

\* What the record would be if makeEdit fired it without the label.
ChangeRecord_unlabelled(w) ==
  [label |-> "", before |-> ops[w].before, after |-> Snapshot(buf[ops[w].obj])]

\* The change record makeEdit fires once editCallback has resolved.
ChangeRecord(w) ==
  [label |-> ops[w].label, before |-> ops[w].before, after |-> Snapshot(buf[ops[w].obj])]

\* The document of w's makeEdit is still the one the host holds (its emitters are not
\* disposed).
StillOpen(w) == docs[DocOf(w)].obj = ops[w].obj

\* A document object whose document was disposed is unreachable once w's makeEdit has
\* returned, unless its timer is armed.
Unreachable(w) ==
  /\ ~StillOpen(w)
  /\ ops[w].obj \in DOMAIN debounced => ~debounced[ops[w].obj].armed

\* editCallback resolved: the new snapshot is taken and the change record is fired; the
\* host takes it on the document's undo stack. The kanbn.save and kanbn.sortColumn
\* handlers then call updateWebview.
MakeEditEnd(w, depth) ==
  /\ w \in EditOwners
  /\ Running(w)
  /\ ops' = [ops EXCEPT ![w] = NoOp]
  /\ records' = IF StillOpen(w)
                THEN [records EXCEPT ![DocOf(w)] = Push(@, ChangeRecord(w), depth)]
                ELSE records
  /\ buf' = IF Unreachable(w) THEN MapDelete(buf, ops[w].obj) ELSE buf
  /\ debounced' = IF Unreachable(w) THEN MapDelete(debounced, ops[w].obj) ELSE debounced
  /\ last' = NoCall
  /\ signalled' = IF StillOpen(w) /\ w \in Paths /\ RefreshAfter(ops[w].label)
                  THEN {DocOf(w)} ELSE {}
  /\ UNCHANGED <<documentAdapters, kanbnInstances, adapters, kanbns, nextId, docs,
                 disk, silent, acquired, tornDown>>

\* editCallback rejected (the task editor's handlers and the board editor's sort handler
\* do not catch what the task store throws, its move handler catches Error objects
\* only): makeEdit rejects before it fires anything.
MakeEditThrow(w) ==
  /\ w \in EditOwners
  /\ Running(w)
  /\ ops' = [ops EXCEPT ![w] = NoOp]
  /\ silent' = silent \cup (IF ops[w].wrote /\ StillOpen(w) THEN {ops[w].obj} ELSE {})
  /\ buf' = IF Unreachable(w) THEN MapDelete(buf, ops[w].obj) ELSE buf
  /\ debounced' = IF Unreachable(w) THEN MapDelete(debounced, ops[w].obj) ELSE debounced
  /\ last' = NoCall
  /\ signalled' = {}
  /\ UNCHANGED <<documentAdapters, kanbnInstances, adapters, kanbns, nextId, docs,
                 disk, records, acquired, tornDown>>

\* What undo would do if it also wrote the restored content to the document's file.
Undo_writesFile(uri) ==
  /\ docs[uri].obj # 0
  /\ records[uri].cursor > 0
  /\ buf' = [buf EXCEPT ![docs[uri].obj] = records[uri].stack[records[uri].cursor].before]
  /\ disk' = MapSet(disk, uri, records[uri].stack[records[uri].cursor].before)
  /\ records' = [records EXCEPT ![uri].cursor = @ - 1]
  /\ last' = NoCall
  /\ signalled' = IF docs[uri].resolved THEN {uri} ELSE {}
  /\ UNCHANGED <<documentAdapters, kanbnInstances, adapters, kanbns, nextId, docs,
                 ops, debounced, silent, acquired, tornDown>>

\* The host invokes undo of the newest applied record of the document:
\* this._documentData = oldDocumentData, then the refresh callback (updateWebview).
Undo(uri) ==
  /\ docs[uri].obj # 0
  /\ records[uri].cursor > 0
  /\ buf' = [buf EXCEPT ![docs[uri].obj] = records[uri].stack[records[uri].cursor].before]
  /\ records' = [records EXCEPT ![uri].cursor = @ - 1]
  /\ last' = NoCall
  /\ signalled' = IF docs[uri].resolved THEN {uri} ELSE {}
  /\ UNCHANGED <<documentAdapters, kanbnInstances, adapters, kanbns, nextId, docs,
                 disk, ops, debounced, silent, acquired, tornDown>>

\* The host invokes redo of the oldest undone record of the document:
\* this._documentData = newDocumentData, then the refresh callback (updateWebview).
Redo(uri) ==
  /\ docs[uri].obj # 0
  /\ records[uri].cursor < Len(records[uri].stack)
  /\ buf' = [buf EXCEPT ![docs[uri].obj] = records[uri].stack[records[uri].cursor + 1].after]
  /\ records' = [records EXCEPT ![uri].cursor = @ + 1]
  /\ last' = NoCall
  /\ signalled' = IF docs[uri].resolved THEN {uri} ELSE {}
  /\ UNCHANGED <<documentAdapters, kanbnInstances, adapters, kanbns, nextId, docs,
                 disk, ops, debounced, silent, acquired, tornDown>>

\* save, asked for through the document's editor:
\* vscode.workspace.fs.writeFile(this._uri, this._documentData)
Save(uri) ==
  /\ docs[uri].resolved
  /\ disk' = MapSet(disk, uri, buf[docs[uri].obj])
  /\ last' = NoCall
  /\ signalled' = {}
  /\ UNCHANGED <<documentAdapters, kanbnInstances, adapters, kanbns, buf, nextId, docs,
                 ops, records, debounced, silent, acquired, tornDown>>

\* revert, asked for through the document's editor:
\* this._documentData = await readFile(this._uri)
Revert(uri) ==
  /\ docs[uri].resolved
  /\ uri \in DOMAIN disk
  /\ buf' = [buf EXCEPT ![docs[uri].obj] = disk[uri]]
  /\ last' = NoCall
  /\ signalled' = {}
  /\ UNCHANGED <<documentAdapters, kanbnInstances, adapters, kanbns, nextId, docs, disk,
                 ops, records, debounced, silent, acquired, tornDown>>

\* ---------------------------------------------------------------- manager calls

\* The getter/setter pairs a caller of the manager can pass: the closures of a document
\* object, or dummies.
CallbacksAt == {DummyCallbacks} \cup {DocCallbacks(o) : o \in DOMAIN buf}

\* The callbacks registered for documentUri in the adapter the manager holds for its
\* board: a sequence of one pair, or none.
RegisteredCallbacks(documentUri) ==
  LET b == BoardPathOf(documentUri)
  IN IF b \in DOMAIN documentAdapters /\ IsLive(documentAdapters[b].adapter, documentUri)
     THEN <<adapters[documentAdapters[b].adapter].documentCallbacks[documentUri]>>
     ELSE <<>>

\* globalManager.getKanbnForDocument(documentUri, boardPath, get, set), called with any
\* URI of the board and any callbacks. The log keeps the call.
Register(documentUri, cb) ==
  /\ getKanbnForDocument(documentUri, BoardPathOf(documentUri), cb)
  /\ last' = [NoCall EXCEPT !.op = "getKanbnForDocument",
                            !.a = documentAdapters'[BoardPathOf(documentUri)].adapter,
                            !.path = documentUri,
                            !.replaced = RegisteredCallbacks(documentUri)]
  /\ signalled' = {}
  /\ UNCHANGED <<buf, docs, disk, ops, records, debounced, silent>>

\* globalManager.cleanupDocument(documentUri, boardPath), called with any URI of the board.
Cleanup(documentUri) ==
  /\ cleanupDocument(documentUri, BoardPathOf(documentUri))
  /\ last' = [NoCall EXCEPT !.op = "cleanupDocument", !.path = documentUri,
                            !.replaced = RegisteredCallbacks(documentUri)]
  /\ signalled' = {}
  /\ UNCHANGED <<buf, docs, disk, ops, records, debounced, silent>>

\* ---------------------------------------------------------------- specifications

Init ==
  /\ documentAdapters = EmptyMap
  /\ kanbnInstances = EmptyMap
  /\ adapters = EmptyMap
  /\ kanbns = EmptyMap
  /\ buf = EmptyMap
  /\ nextId = 1
  /\ docs = [p \in Paths |-> NoDoc]
  /\ disk = [p \in Paths |-> "x"]
  /\ ops = [w \in Owners |-> NoOp]
  /\ records = [p \in Paths |-> NoRecords]
  /\ debounced = EmptyMap
  /\ signalled = {}
  /\ last = NoCall
  /\ silent = {}
  /\ acquired = [b \in Boards |-> {}]
  /\ tornDown = {}

\* The task editors of the boards of B: documents opened, resolved and disposed with at
\* most max objects constructed.
TaskEditors(B, max) ==
  \/ \E uri \in TaskUris : BoardPathOf(uri) \in B /\ OpenTask(uri) /\ nextId' <= max + 1
  \/ \E uri \in TaskUris : BoardPathOf(uri) \in B /\ ResolveTask(uri) /\ nextId' <= max + 1
  \/ \E uri \in TaskUris : BoardPathOf(uri) \in B /\ DisposeTask(uri)

\* The board editors of the boards of B.
BoardEditors(B, max) ==
  \/ \E uri \in IndexUris : BoardPathOf(uri) \in B /\ OpenBoard(uri) /\ nextId' <= max + 1
  \/ \E uri \in IndexUris : BoardPathOf(uri) \in B /\ ResolveBoard(uri) /\ nextId' <= max + 1
  \/ \E uri \in IndexUris : BoardPathOf(uri) \in B /\ DisposeBoard(uri)

\* The extension commands and file watcher events on the boards of B.
Commands(B, max) ==
  \/ \E b \in B : CommandStart(b) /\ nextId' <= max + 1
  \/ \E b \in B : CommandDone(b)
  \/ \E b \in B : FileWatcherChange(b) /\ nextId' <= max + 1

Lifecycle(B, max) ==
  \/ TaskEditors(B, max)
  \/ BoardEditors(B, max)
  \/ Commands(B, max)

\* The task-store file traffic of the operations in flight on the boards of B.
FileTraffic(B) ==
  \/ \E w \in Owners, p \in Paths : w[1] \in B /\ Access(w, p)
  \/ \E w \in Owners, p \in Paths : w[1] \in B /\ ReadFile(w, p)
  \/ \E w \in Owners, p \in Paths, c \in Contents, fsError \in FsErrors :
       w[1] \in B /\ WriteFile(w, p, c, fsError)
  \/ \E w \in Owners, p \in Paths : \E q \in Paths \ {p} : w[1] \in B /\ Rename(w, p, q)
  \/ \E w \in Owners, p \in Paths : w[1] \in B /\ Unlink(w, p)

\* The edits the message handlers start with a label of L, with the host following
\* depth change records.
Edits(B, depth, L) ==
  \/ \E uri \in Paths : \E label \in LabelsOf(uri) \cap L :
       BoardPathOf(uri) \in B /\ MakeEditBegin(uri, label)
  \/ \E w \in EditOwners : w[1] \in B /\ MakeEditEnd(w, depth)
  \/ \E w \in EditOwners : w[1] \in B /\ MakeEditThrow(w)

\* The host saves and reverts the documents of the boards of B.
Persisting(B) ==
  \/ \E uri \in Paths : BoardPathOf(uri) \in B /\ Save(uri)
  \/ \E uri \in Paths : BoardPathOf(uri) \in B /\ Revert(uri)

Editing(B, depth, L) ==
  \/ Edits(B, depth, L)
  \/ Persisting(B)

\* The debounced text changes of the task editors of the boards of B.
Debouncing(B) ==
  \/ \E uri \in TaskUris, taskData \in Contents :
       BoardPathOf(uri) \in B /\ TextChange(uri, taskData)
  \/ \E o \in DOMAIN debounced : debounced[o].uri[1] \in B /\ TimerFire(o)

\* The host's use of the change records of the documents of the boards of B.
UndoRedo(B) ==
  \/ \E uri \in Paths : BoardPathOf(uri) \in B /\ Undo(uri)
  \/ \E uri \in Paths : BoardPathOf(uri) \in B /\ Redo(uri)

\* What the task store writes during the edits on the boards of B.
EditWrites(B) ==
  \E w \in EditOwners, p \in Paths, c \in Contents : w[1] \in B /\ WriteFile(w, p, c, "")

NextBoards == Lifecycle(Boards, MaxObj)

\* Editors, commands and watcher events on every board; no task-store file traffic.
SpecBoards == Init /\ [][NextBoards]_vars

FsBoards == {"b1"}
Next ==
  \/ Lifecycle(FsBoards, MaxFsObj)
  \/ Editing(FsBoards, 0, {UpdateLabel, MoveLabel})
  \/ FileTraffic(FsBoards)

\* One board with its editors, commands and the file traffic of their operations.
Spec == Init /\ [][Next]_vars

NextShared ==
  \/ TaskEditors(FsBoards, MaxObj)
  \/ BoardEditors(FsBoards, MaxObj)
  \/ Edits(FsBoards, 0, {UpdateLabel, MoveLabel})
  \/ EditWrites(FsBoards)

\* One board with a board editor and a task editor open on it at the same time.
SpecShared == Init /\ [][NextShared]_vars

NextRecords ==
  \/ TaskEditors(FsBoards, MaxEdObj)
  \/ BoardEditors(FsBoards, MaxEdObj)
  \/ Edits(FsBoards, MaxDepth, {UpdateLabel, SaveLabel, MoveLabel})
  \/ UndoRedo(FsBoards)
  \/ EditWrites(FsBoards)

\* One editor with its edits and the host's undo and redo of their change records.
SpecRecords == Init /\ [][NextRecords]_vars

NextDebounce ==
  \/ TaskEditors(FsBoards, MaxEdObj)
  \/ Edits(FsBoards, 0, {UpdateLabel, SaveLabel})
  \/ Debouncing(FsBoards)
  \/ Persisting(FsBoards)
  \/ EditWrites(FsBoards)

\* One task editor with its debounced text changes.
SpecDebounce == Init /\ [][NextDebounce]_vars

NextManager ==
  \/ \E uri \in TaskUris : BoardPathOf(uri) \in FsBoards /\ OpenTask(uri) /\ nextId' <= MaxObj + 1
  \/ \E uri \in IndexUris : BoardPathOf(uri) \in FsBoards /\ OpenBoard(uri) /\ nextId' <= MaxObj + 1
  \/ \E uri \in Paths : \E cb \in CallbacksAt :
       BoardPathOf(uri) \in FsBoards /\ Register(uri, cb) /\ nextId' <= MaxObj + 1
  \/ \E uri \in Paths : BoardPathOf(uri) \in FsBoards /\ Cleanup(uri)

\* The manager called with any document URI and any callbacks of the documents open.
SpecManager == Init /\ [][NextManager]_vars

\* ---------------------------------------------------------------- overlapping edits

NextChain ==
  \/ TaskEditors(FsBoards, MaxEdObj)
  \/ \E uri \in TaskUris : \E label \in LabelsOf(uri) :
       BoardPathOf(uri) \in FsBoards /\ MakeEditBegin(uri, label)
  \/ \E w \in EditOwners : w[1] \in FsBoards /\ MakeEditEnd(w, MaxDepth)
  \/ Debouncing(FsBoards)
  \/ EditWrites(FsBoards)

\* One task editor with the edits of its messages and of its timer, every one of which
\* resolves; the host keeps the change records and neither undoes nor reverts.
SpecChain == Init /\ [][NextChain]_vars

\* ---------------------------------------------------------------- adapter calls across their await

\* writeFile up to `await fs.promises.writeFile(filePath, data)`: the path was looked up
\* in documentCallbacks, had no entry, and the disk write is started.
WriteFileBegin(w, p, data) ==
  /\ Running(w)
  /\ p \in PathsOf(w)
  /\ ops[w].io = <<>>
  /\ ~IsLive(AdapterOf(w), p)
  /\ ops' = [ops EXCEPT ![w].io = <<[path |-> p, data |-> data]>>]
  /\ last' = NoCall
  /\ signalled' = {}
  /\ UNCHANGED <<documentAdapters, kanbnInstances, adapters, kanbns, buf, nextId, docs,
                 disk, records, debounced, silent, acquired, tornDown>>

\* The disk write settles and writeFile returns or throws; nothing is looked up again.
\* The log keeps the registrations of the path at this moment.
WriteFileSettle(w, fsError) ==
  LET io == ops[w].io[1]
      out == [Call("writeFile", AdapterOf(w), io.path) EXCEPT
                !.value = io.data,
                !.fs = {<<"writeFile", io.path>>},
                !.fsError = fsError,
                !.ok = (fsError = ""),
                !.error = fsError]
  IN /\ Running(w)
     /\ ops[w].io # <<>>
     /\ last' = out
     /\ disk' = DiskAfter(out)
     /\ ops' = [ops EXCEPT ![w].io = <<>>]
     /\ signalled' = {}
     /\ UNCHANGED <<documentAdapters, kanbnInstances, adapters, kanbns, buf, nextId, docs,
                    records, debounced, silent, acquired, tornDown>>

NextSuspended ==
  \/ TaskEditors(FsBoards, MaxFsObj)
  \/ \E b \in FsBoards : CommandStart(b) /\ nextId' <= MaxFsObj + 1
  \/ \E b \in FsBoards : ops[CommandOwner(b)].io = <<>> /\ CommandDone(b)
  \/ \E w \in Owners, p \in Paths, c \in Contents : w[1] \in FsBoards /\ WriteFileBegin(w, p, c)
  \/ \E w \in Owners, fsError \in FsErrors : w[1] \in FsBoards /\ WriteFileSettle(w, fsError)
  \/ \E w \in Owners, p \in Paths, c \in Contents :
       w[1] \in FsBoards /\ Running(w) /\ IsLive(AdapterOf(w), p) /\ WriteFile(w, p, c, "")

\* One board with its task editor and commands; a writeFile call on a path without
\* registration is followed across its await.
SpecSuspended == Init /\ [][NextSuspended]_vars

\* ---------------------------------------------------------------- adapter methods called directly

\* The paths the two adapter variants are called with. A path is the sequence of its
\* segments, in normal form: the board index the document holds, a task file, a task
\* file one directory deeper, and the two directories.
TasksDir == <<"b1", "tasks">>
OldDir == <<"b1", "tasks", "old">>
FsDirs == {TasksDir, OldDir}
MainIndex == <<"b1", "index.md">>
FsFiles == {MainIndex, TasksDir \o <<"t1.md">>, OldDir \o <<"t2.md">>}
\* What the disk holds at a directory's path.
DirEntry == "<dir>"
ParentOnDisk(p) == Parent(p) \in FsDirs => Parent(p) \in DOMAIN disk

\* The objects: the disk-backed adapter, the fully virtual adapter, and the document
\* both were constructed for.
DiskBacked == 1
Virtual == 2
IndexDocument == 3

\* glob patterns: a directory and a file pattern after the last slash.
Patterns == [directory : {<<"b1">>} \cup FsDirs, filePattern : {"*.md", "t1.md"}]
\* filePath.endsWith('.md')
EndsWithMd(p) == p[Len(p)] \in {"index.md", "t1.md", "t2.md"}
\* filePath.startsWith(directory), on whole segments
StartsWith(p, directory) ==
  Len(directory) <= Len(p) /\ SubSeq(p, 1, Len(directory)) = directory
\* What the glob library returns for the pattern on the real file system.
RealGlob(pattern) ==
  {p \in DOMAIN disk :
     /\ Parent(p) = pattern.directory
     /\ IF pattern.filePattern = "*.md" THEN EndsWithMd(p)
                                        ELSE p[Len(p)] = pattern.filePattern}

RECURSIVE SetToSeq(_)
SetToSeq(S) == IF S = {} THEN <<>> ELSE LET x == CHOOSE y \in S : TRUE
                                        IN <<x>> \o SetToSeq(S \ {x})

\* What no method of the adapters touches.
DirectFrame ==
  /\ signalled' = {}
  /\ UNCHANGED <<documentAdapters, kanbnInstances, kanbns, nextId, docs, ops, records,
                 debounced, silent, acquired, tornDown>>

isMainIndexFile(p) == p = adapters[Virtual].documentUri
VirtualCall(op, p) == [NoCall EXCEPT !.op = op, !.a = Virtual, !.path = p]

\* access of the fully virtual adapter
VAccess(p) ==
  LET v == adapters[Virtual]
      inMap == p \in DOMAIN v.fileExistsMap
      found == \/ isMainIndexFile(p)
               \/ inMap /\ v.fileExistsMap[p]
               \/ ~inMap /\ p \in DOMAIN disk
  IN /\ last' = [VirtualCall("access", p) EXCEPT
                   !.ok = found, !.error = Enoent(found),
                   !.fs = IF isMainIndexFile(p) \/ inMap THEN {} ELSE {<<"access", p>>}]
     /\ UNCHANGED <<adapters, buf, disk>>
     /\ DirectFrame

\* readFile of the fully virtual adapter
VReadFile(p) ==
  LET v == adapters[Virtual]
      onDisk == p \in DOMAIN disk /\ disk[p] # DirEntry
  IN /\ last' = IF isMainIndexFile(p)
                THEN [VirtualCall("readFile", p) EXCEPT !.value = getContent(v.callbacks)]
                ELSE IF p \in DOMAIN v.fileContentMap
                THEN [VirtualCall("readFile", p) EXCEPT !.value = v.fileContentMap[p]]
                ELSE [VirtualCall("readFile", p) EXCEPT
                        !.fs = {<<"readFile", p>>}, !.ok = onDisk,
                        !.value = IF onDisk THEN disk[p] ELSE "",
                        !.error = Enoent(onDisk)]
     /\ UNCHANGED <<adapters, buf, disk>>
     /\ DirectFrame

\* writeFile of the fully virtual adapter
VWriteFile(p, data) ==
  /\ last' = [VirtualCall("writeFile", p) EXCEPT !.value = data]
  /\ IF isMainIndexFile(p)
     THEN /\ buf' = [buf EXCEPT ![adapters[Virtual].callbacks.obj] = data]
          /\ UNCHANGED adapters
     ELSE /\ adapters' = [adapters EXCEPT ![Virtual].fileContentMap = MapSet(@, p, data),
                                          ![Virtual].fileExistsMap = MapSet(@, p, TRUE)]
          /\ UNCHANGED buf
  /\ UNCHANGED disk
  /\ DirectFrame

\* What the virtual mkdir would do if it refused a directory it holds already.
VMkdir_refusesExisting(dirPath) ==
  /\ last' = [VirtualCall("mkdir", dirPath) EXCEPT
                !.ok = dirPath \notin DOMAIN adapters[Virtual].fileExistsMap,
                !.error = IF dirPath \in DOMAIN adapters[Virtual].fileExistsMap
                          THEN "EEXIST" ELSE ""]
  /\ adapters' = [adapters EXCEPT ![Virtual].fileExistsMap = MapSet(@, dirPath, TRUE)]
  /\ UNCHANGED <<buf, disk>>
  /\ DirectFrame

\* mkdir of the fully virtual adapter
VMkdir(dirPath) ==
  /\ last' = VirtualCall("mkdir", dirPath)
  /\ adapters' = [adapters EXCEPT ![Virtual].fileExistsMap = MapSet(@, dirPath, TRUE)]
  /\ UNCHANGED <<buf, disk>>
  /\ DirectFrame

\* What the virtual rename would do if it did not look for the old path's content.
VRename_unchecked(oldPath, newPath) ==
  /\ last' = [VirtualCall("rename", oldPath) EXCEPT !.path2 = newPath]
  /\ adapters' = [adapters EXCEPT
                    ![Virtual].fileContentMap = MapDelete(MapSet(@, newPath, ""), oldPath),
                    ![Virtual].fileExistsMap = MapDelete(MapSet(@, newPath, TRUE), oldPath)]
  /\ UNCHANGED <<buf, disk>>
  /\ DirectFrame

\* rename of the fully virtual adapter: the content is looked up in fileContentMap only
VRename(oldPath, newPath) ==
  LET v == adapters[Virtual]
      held == oldPath \in DOMAIN v.fileContentMap
  IN /\ last' = [VirtualCall("rename", oldPath) EXCEPT
                   !.path2 = newPath, !.ok = held, !.error = Enoent(held)]
     /\ adapters' =
          IF held
          THEN [adapters EXCEPT
                  ![Virtual].fileContentMap =
                     MapDelete(MapSet(@, newPath, v.fileContentMap[oldPath]), oldPath),
                  ![Virtual].fileExistsMap = MapDelete(MapSet(@, newPath, TRUE), oldPath)]
          ELSE adapters
     /\ UNCHANGED <<buf, disk>>
     /\ DirectFrame

\* unlink of the fully virtual adapter
VUnlink(p) ==
  /\ last' = VirtualCall("unlink", p)
  /\ adapters' = [adapters EXCEPT ![Virtual].fileContentMap = MapDelete(@, p),
                                  ![Virtual].fileExistsMap = MapDelete(@, p)]
  /\ UNCHANGED <<buf, disk>>
  /\ DirectFrame

\* glob of the fully virtual adapter: the entries of fileContentMap for a `*.md` file
\* pattern, then the real files fileContentMap does not hold
VGlob(pattern) ==
  LET v == adapters[Virtual]
      virtualFiles == IF pattern.filePattern = "*.md"
                      THEN {p \in DOMAIN v.fileContentMap :
                              StartsWith(p, pattern.directory) /\ EndsWithMd(p)}
                      ELSE {}
      realFiles == {p \in RealGlob(pattern) : p \notin DOMAIN v.fileContentMap}
  IN /\ last' = [VirtualCall("glob", pattern.directory) EXCEPT
                   !.value = pattern.filePattern,
                   !.listed = SetToSeq(virtualFiles) \o SetToSeq(realFiles)]
     /\ UNCHANGED <<adapters, buf, disk>>
     /\ DirectFrame

\* What the disk-backed mkdir would do if its catch block threw every error again.
mkdir_rethrows(a, dirPath, recursive) ==
  LET exists == dirPath \in DOMAIN disk
      collides == exists /\ ~(recursive /\ disk[dirPath] = DirEntry)
  IN [Call("mkdir", a, dirPath) EXCEPT
        !.fs = {<<"mkdir", dirPath>>},
        !.fsError = IF collides THEN "EEXIST"
                    ELSE IF ~exists /\ ~recursive /\ ~ParentOnDisk(dirPath) THEN "ENOENT"
                    ELSE "",
        !.ok = ~collides /\ (exists \/ recursive \/ ParentOnDisk(dirPath)),
        !.error = IF collides THEN "EEXIST"
                  ELSE IF ~exists /\ ~recursive /\ ~ParentOnDisk(dirPath) THEN "ENOENT"
                  ELSE ""]

\* mkdir of the disk-backed adapter: fs.promises.mkdir rejects with EEXIST for a path
\* that exists (unless it is a directory and recursive is set) and the catch block
\* swallows that; it rejects with ENOENT when the parent is missing and recursive is not set.
mkdir(a, dirPath, recursive) ==
  LET exists == dirPath \in DOMAIN disk
      collides == exists /\ ~(recursive /\ disk[dirPath] = DirEntry)
      orphan == ~exists /\ ~recursive /\ ~ParentOnDisk(dirPath)
  IN [Call("mkdir", a, dirPath) EXCEPT
        !.fs = {<<"mkdir", dirPath>>},
        !.fsError = IF collides THEN "EEXIST" ELSE IF orphan THEN "ENOENT" ELSE "",
        !.ok = ~orphan,
        !.error = IF orphan THEN "ENOENT" ELSE ""]

\* The state after construction of the two adapters for the index document: the disk
\* holds any of the files and directories, each file under its directory.
InitDirect ==
  /\ documentAdapters = EmptyMap
  /\ kanbnInstances = EmptyMap
  /\ adapters = [a \in {DiskBacked, Virtual} |->
                   IF a = DiskBacked
                   THEN [documentUri |-> MainIndex, via |-> "board",
                         documentCallbacks |->
                           MapSet(EmptyMap, MainIndex, DocCallbacks(IndexDocument))]
                   ELSE [documentUri |-> MainIndex, via |-> "virtual",
                         callbacks |-> DocCallbacks(IndexDocument),
                         fileContentMap |-> EmptyMap, fileExistsMap |-> EmptyMap]]
  /\ kanbns = EmptyMap
  /\ buf = [o \in {IndexDocument} |-> "x"]
  /\ nextId = IndexDocument + 1
  /\ docs = [p \in Paths |-> NoDoc]
  /\ disk \in {[p \in S |-> IF p \in FsDirs THEN DirEntry ELSE "x"] :
                 S \in {T \in SUBSET (FsFiles \cup FsDirs) :
                          \A p \in T : Parent(p) \in FsDirs => Parent(p) \in T}}
  /\ ops = [w \in Owners |-> NoOp]
  /\ records = [p \in Paths |-> NoRecords]
  /\ debounced = EmptyMap
  /\ signalled = {}
  /\ last = NoCall
  /\ silent = {}
  /\ acquired = [b \in Boards |-> {}]
  /\ tornDown = {}

\* A caller of the disk-backed adapter.
Caller == CommandOwner("b1")

NextDirect ==
  \/ \E p \in FsFiles \cup FsDirs : VAccess(p)
  \/ \E p \in FsFiles : VReadFile(p)
  \/ \E p \in FsFiles : VWriteFile(p, "y")
  \/ \E d \in FsDirs : VMkdir(d)
  \/ \E p \in FsFiles, q \in FsFiles : VRename(p, q)
  \/ \E p \in FsFiles : VUnlink(p)
  \/ \E pattern \in Patterns : VGlob(pattern)
  \/ \E d \in FsDirs, recursive \in BOOLEAN : Perform(Caller, mkdir(DiskBacked, d, recursive))
  \/ \E p \in FsFiles : \E q \in FsFiles \ {p} :
       ParentOnDisk(q) /\ Perform(Caller, rename(DiskBacked, p, q))
  \/ \E p \in FsFiles : Perform(Caller, unlink(DiskBacked, p))

\* The methods of the disk-backed and of the fully virtual adapter, called in any order.
SpecDirect == InitDirect /\ [][NextDirect]_vars

\* ---------------------------------------------------------------- resolveBoardPath

\* A path string is the sequence of its pieces: a separator, a tilde, a blank, a dot
\* segment, a dot-dot segment or a run of name characters. Two dot pieces are never
\* adjacent, so that a string has one spelling.
Pieces == {"/", "~", " ", ".", "..", "a"}
Dots == {".", ".."}
Strings(n) ==
  {s \in UNION {[1..k -> Pieces] : k \in 0..n} :
     \A i \in 1..(Len(s) - 1) : ~(s[i] \in Dots /\ s[i + 1] \in Dots)}
\* basePath null
NullBase == <<"null">>
\* The base paths: empty, relative, absolute, absolute with two segments, absolute and
\* not normalized.
BasePaths == {<<>>, <<"w">>, <<"/", "w">>, <<"/", "w", "/", "p">>,
              <<"/", "w", "/", ".", "/", "p">>}
\* os.homedir() and process.cwd()
Homedir == <<"/", "h">>
Cwd == <<"/", "c">>

RECURSIVE Text(_)
\* The string a sequence of pieces spells.
Text(s) == IF s = <<>> THEN "" ELSE s[1] \o Text(Tail(s))

RECURSIVE trimStart(_)
trimStart(s) == IF s # <<>> /\ s[1] = " " THEN trimStart(Tail(s)) ELSE s
RECURSIVE trimEnd(_)
trimEnd(s) ==
  IF s # <<>> /\ s[Len(s)] = " " THEN trimEnd(SubSeq(s, 1, Len(s) - 1)) ELSE s
trim(s) == trimEnd(trimStart(s))

isAbsolute(s) == s # <<>> /\ s[1] = "/"

RECURSIVE Split(_)
\* The segments of a path string: what stands between its separators.
Split(s) ==
  IF \A i \in DOMAIN s : s[i] # "/"
  THEN <<s>>
  ELSE LET i == CHOOSE j \in DOMAIN s : s[j] = "/" /\ \A k \in 1..(j - 1) : s[k] # "/"
       IN <<SubSeq(s, 1, i - 1)>> \o Split(SubSeq(s, i + 1, Len(s)))

RECURSIVE Joined(_)
\* Segments written with one separator between them.
Joined(segs) ==
  IF segs = <<>> THEN <<>>
  ELSE IF Len(segs) = 1 THEN segs[1]
  ELSE segs[1] \o <<"/">> \o Joined(Tail(segs))

RECURSIVE normalizeString(_, _, _)
\* node's normalizeString: empty and `.` segments are dropped, `..` removes the segment
\* before it, or stays when there is none and the path is relative.
normalizeString(segs, res, allowAboveRoot) ==
  IF segs = <<>> THEN res
  ELSE LET seg == segs[1]
           next == IF seg = <<>> \/ seg = <<".">> THEN res
                   ELSE IF seg = <<"..">>
                   THEN IF res # <<>> /\ res[Len(res)] # <<"..">>
                        THEN SubSeq(res, 1, Len(res) - 1)
                        ELSE IF allowAboveRoot THEN Append(res, seg) ELSE res
                   ELSE Append(res, seg)
       IN normalizeString(Tail(segs), next, allowAboveRoot)

\* path.normalize (POSIX)
normalize(s) ==
  IF s = <<>> THEN <<".">>
  ELSE LET body == Joined(normalizeString(Split(s), <<>>, ~isAbsolute(s)))
           named == IF body = <<>> /\ ~isAbsolute(s) THEN <<".">> ELSE body
           closed == IF named # <<>> /\ s[Len(s)] = "/" THEN named \o <<"/">> ELSE named
       IN IF isAbsolute(s) THEN <<"/">> \o closed ELSE closed

\* path.join(a, b)
join(a, b) ==
  IF a = <<>> /\ b = <<>> THEN <<".">>
  ELSE IF a = <<>> THEN normalize(b)
  ELSE IF b = <<>> THEN normalize(a)
  ELSE normalize(a \o <<"/">> \o b)

\* path.resolve(a, b) (POSIX): from the right, up to the first absolute argument, then
\* the working directory; no trailing separator.
resolve(a, b) ==
  LET right == IF isAbsolute(b) \/ a = <<>> THEN b
               ELSE IF b = <<>> THEN a ELSE a \o <<"/">> \o b
      whole == IF isAbsolute(right) THEN right
               ELSE IF right = <<>> THEN Cwd ELSE Cwd \o <<"/">> \o right
  IN <<"/">> \o Joined(normalizeString(Split(whole), <<>>, FALSE))

\* What resolveBoardPath returns or throws.
Returns(value) == [ok |-> TRUE, value |-> value, error |-> ""]
Throws(message) == [ok |-> FALSE, value |-> <<>>, error |-> message]
EmptyPathMessage == "Empty path provided"
RelativePathMessage(boardPath) ==
  "Relative path \"" \o Text(boardPath) \o "\" cannot be used in global settings. "
    \o "Use an absolute path or ~/ for home directory."

\* What resolveBoardPath would do if it resolved a relative path against the working
\* directory when there is no base path.
resolveBoardPath_withoutBase(boardPath, basePath) ==
  IF boardPath = <<>> \/ trim(boardPath) = <<>>
  THEN IF basePath # NullBase /\ basePath # <<>> THEN Returns(basePath)
       ELSE Throws(EmptyPathMessage)
  ELSE LET expandedPath == IF boardPath[1] = "~" THEN join(Homedir, Tail(boardPath))
                           ELSE boardPath
       IN IF isAbsolute(expandedPath) THEN Returns(normalize(expandedPath))
          ELSE IF basePath = NullBase THEN Returns(normalize(resolve(<<>>, expandedPath)))
          ELSE Returns(normalize(resolve(basePath, expandedPath)))

\* What resolveBoardPath would do if it looked at the base path before the absolute path.
resolveBoardPath_baseFirst(boardPath, basePath) ==
  IF boardPath = <<>> \/ trim(boardPath) = <<>>
  THEN IF basePath # NullBase /\ basePath # <<>> THEN Returns(basePath)
       ELSE Throws(EmptyPathMessage)
  ELSE LET expandedPath == IF boardPath[1] = "~" THEN join(Homedir, Tail(boardPath))
                           ELSE boardPath
       IN IF basePath = NullBase THEN Throws(RelativePathMessage(boardPath))
          ELSE Returns(normalize(resolve(basePath, expandedPath)))

\* `if (basePath)` holds for a string that is not empty.
resolveBoardPath(boardPath, basePath) ==
  IF boardPath = <<>> \/ trim(boardPath) = <<>>
  THEN IF basePath # NullBase /\ basePath # <<>> THEN Returns(basePath)
       ELSE Throws(EmptyPathMessage)
  ELSE LET expandedPath == IF boardPath[1] = "~" THEN join(Homedir, Tail(boardPath))
                           ELSE boardPath
       IN IF isAbsolute(expandedPath) THEN Returns(normalize(expandedPath))
          ELSE IF basePath = NullBase THEN Throws(RelativePathMessage(boardPath))
          ELSE Returns(normalize(resolve(basePath, expandedPath)))

\* A call of resolveBoardPath about to be made; the log holds its arguments.
InitResolve ==
  /\ documentAdapters = EmptyMap
  /\ kanbnInstances = EmptyMap
  /\ adapters = EmptyMap
  /\ kanbns = EmptyMap
  /\ buf = EmptyMap
  /\ nextId = 1
  /\ docs = [p \in Paths |-> NoDoc]
  /\ disk = [p \in Paths |-> "x"]
  /\ ops = [w \in Owners |-> NoOp]
  /\ records = [p \in Paths |-> NoRecords]
  /\ debounced = EmptyMap
  /\ signalled = {}
  /\ last \in {[NoCall EXCEPT !.op = "call", !.path = boardPath, !.path2 = basePath] :
                 boardPath \in Strings(MaxRawLen), basePath \in BasePaths \cup {NullBase}}
  /\ silent = {}
  /\ acquired = [b \in Boards |-> {}]
  /\ tornDown = {}

\* The call returns or throws; the log keeps the arguments and the outcome.
ResolveCall ==
  /\ last.op = "call"
  /\ LET out == resolveBoardPath(last.path, last.path2)
     IN last' = [last EXCEPT !.op = "resolveBoardPath", !.ok = out.ok,
                             !.listed = out.value, !.error = out.error]
  /\ UNCHANGED <<documentAdapters, kanbnInstances, adapters, kanbns, buf, nextId, docs,
                 disk, ops, records, debounced, signalled, silent, acquired, tornDown>>

\* The result of a call is resolved again, with any base path.
ResolveAgain ==
  /\ last.op = "resolveBoardPath"
  /\ last.ok
  /\ \E basePath \in BasePaths \cup {NullBase} :
       last' = [NoCall EXCEPT !.op = "call", !.path = last.listed, !.path2 = basePath]
  /\ UNCHANGED <<documentAdapters, kanbnInstances, adapters, kanbns, buf, nextId, docs,
                 disk, ops, records, debounced, signalled, silent, acquired, tornDown>>

NextResolve ==
  \/ ResolveCall
  \/ ResolveAgain

\* resolveBoardPath applied to every raw path of at most MaxRawLen pieces and every base.
SpecResolve == InitResolve /\ [][NextResolve]_vars

\* ---------------------------------------------------------------- path spellings

\* The flavour of node's path module and of vscode.Uri.fsPath in the extension host.
Platforms == {"posix", "win32"}
\* The file of the one document, in normal form.
DocumentFile == <<"/", "a", "/", "a">>
BackToSlash(s) == [i \in DOMAIN s |-> IF s[i] = "\\" THEN "/" ELSE s[i]]
ToBackslash(s) == [i \in DOMAIN s |-> IF s[i] = "/" THEN "\\" ELSE s[i]]
\* The strings of at most n pieces, with no name piece and no dot piece next to another.
SpelledWith(pieces, n) ==
  {s \in UNION {[1..k -> pieces] : k \in 1..n} :
     \A i \in 1..(Len(s) - 1) : ~(s[i] \in {".", "a"} /\ s[i + 1] \in {".", "a"})}
\* The file a string names on a platform: on win32 both separators separate.
Canon(platform, s) == IF platform = "posix" THEN normalize(s) ELSE normalize(BackToSlash(s))
\* The paths of the URIs that name the document, and the strings the task store can
\* name it with on a platform.
UriPaths == {s \in SpelledWith({"/", ".", "a"}, MaxSpellLen) : normalize(s) = DocumentFile}
Win32FilePaths ==
  {s \in SpelledWith({"/", "\\", ".", "a"}, MaxSpellLen) : Canon("win32", s) = DocumentFile}
FilePaths(platform) == IF platform = "posix" THEN UriPaths ELSE Win32FilePaths

\* vscode.Uri.fsPath: the URI's path, with backslashes for the slashes on win32
fsPath(platform, uriPath) == IF platform = "posix" THEN uriPath ELSE ToBackslash(uriPath)

\* path.normalize(filePath).replace(/\\/g, '/'): path.win32.normalize takes both
\* separators and writes backslashes, path.posix.normalize takes a backslash for a
\* character of a name; the replacement comes after the normalization.
normalizePath(platform, filePath) ==
  IF platform = "posix" THEN BackToSlash(normalize(filePath))
  ELSE BackToSlash(ToBackslash(normalize(BackToSlash(filePath))))

\* The platform the adapter was constructed on.
PlatformOf(a) == adapters[a].platform

\* access, readFile and writeFile of the disk-backed adapter, called with the string
\* filePath: the registration is looked up under normalizePath(filePath), the disk is
\* called with filePath.
SpelledCall(op, filePath, data) ==
  LET key == normalizePath(PlatformOf(DiskBacked), filePath)
      callbacks == adapters[DiskBacked].documentCallbacks
      file == Canon(PlatformOf(DiskBacked), filePath)
      onDisk == file \in DOMAIN disk
  IN IF key \in DOMAIN callbacks
     THEN [NoCall EXCEPT
             !.op = op, !.a = DiskBacked, !.path = filePath, !.live = {key},
             !.value = IF op = "readFile" THEN getContent(callbacks[key])
                       ELSE IF op = "writeFile" THEN data ELSE "",
             !.setter = IF op = "writeFile" THEN <<[cb |-> callbacks[key], data |-> data]>>
                        ELSE <<>>]
     ELSE [NoCall EXCEPT
             !.op = op, !.a = DiskBacked, !.path = filePath, !.fs = {<<op, filePath>>},
             !.ok = (op = "writeFile" \/ onDisk),
             !.value = IF op = "writeFile" THEN data
                       ELSE IF op = "readFile" /\ onDisk THEN disk[file] ELSE "",
             !.error = IF op = "writeFile" THEN "" ELSE Enoent(onDisk)]

\* What no step of the adapter's use with spelled paths touches.
SpellingFrame ==
  /\ signalled' = {}
  /\ UNCHANGED <<documentAdapters, kanbnInstances, kanbns, nextId, docs, ops, records,
                 debounced, silent, acquired, tornDown>>

\* new VscodeFileSystemAdapter(documentUri, get, set) on a platform, for a URI of the
\* document: the key is documentUri.fsPath.
Construct(platform, uriPath) ==
  /\ adapters = EmptyMap
  /\ adapters' = [a \in {DiskBacked} |->
                    [documentUri |-> uriPath, via |-> "board", platform |-> platform,
                     documentCallbacks |->
                       MapSet(EmptyMap, fsPath(platform, uriPath), DocCallbacks(IndexDocument))]]
  /\ last' = NoCall
  /\ UNCHANGED <<buf, disk>>
  /\ SpellingFrame

\* removeDocumentCallbacks(documentUri) with the URI the document is registered with
Release(uriPath) ==
  /\ adapters # EmptyMap
  /\ fsPath(PlatformOf(DiskBacked), uriPath) \in DOMAIN adapters[DiskBacked].documentCallbacks
  /\ adapters' = removeDocumentCallbacks(DiskBacked, fsPath(PlatformOf(DiskBacked), uriPath))
  /\ last' = NoCall
  /\ UNCHANGED <<buf, disk>>
  /\ SpellingFrame

\* addDocumentCallbacks(documentUri, get, set) for a URI of the document, once it has
\* no registration
Acquire(uriPath) ==
  /\ adapters # EmptyMap
  /\ DOMAIN adapters[DiskBacked].documentCallbacks = {}
  /\ adapters' = addDocumentCallbacks(DiskBacked, fsPath(PlatformOf(DiskBacked), uriPath),
                                      DocCallbacks(IndexDocument))
  /\ last' = NoCall
  /\ UNCHANGED <<buf, disk>>
  /\ SpellingFrame

\* The task store calls access, readFile or writeFile with a spelling of the file.
SpelledStep(op, filePath, data) ==
  LET out == SpelledCall(op, filePath, data)
  IN /\ adapters # EmptyMap
     /\ filePath \in FilePaths(PlatformOf(DiskBacked))
     /\ last' = out
     /\ buf' = BufAfter(out)
     /\ disk' = IF op = "writeFile" /\ out.fs # {}
                THEN MapSet(disk, Canon(PlatformOf(DiskBacked), filePath), data)
                ELSE disk
     /\ UNCHANGED adapters
     /\ SpellingFrame

InitSpelling ==
  /\ documentAdapters = EmptyMap
  /\ kanbnInstances = EmptyMap
  /\ adapters = EmptyMap
  /\ kanbns = EmptyMap
  /\ buf = [o \in {IndexDocument} |-> "x"]
  /\ nextId = IndexDocument + 1
  /\ docs = [p \in Paths |-> NoDoc]
  /\ disk = [p \in {DocumentFile} |-> "x"]
  /\ ops = [w \in Owners |-> NoOp]
  /\ records = [p \in Paths |-> NoRecords]
  /\ debounced = EmptyMap
  /\ signalled = {}
  /\ last = NoCall
  /\ silent = {}
  /\ acquired = [b \in Boards |-> {}]
  /\ tornDown = {}

NextSpelling ==
  \/ \E platform \in Platforms, uriPath \in UriPaths : Construct(platform, uriPath)
  \/ \E uriPath \in UriPaths : Release(uriPath)
  \/ \E uriPath \in UriPaths : Acquire(uriPath)
  \/ \E q \in Win32FilePaths : SpelledStep("access", q, "")
  \/ \E q \in Win32FilePaths : SpelledStep("readFile", q, "")
  \/ \E q \in Win32FilePaths : SpelledStep("writeFile", q, "y")

\* One adapter with one open document, registered and looked up under any spellings of
\* the document's path.
SpecSpelling == InitSpelling /\ [][NextSpelling]_vars

\* ---------------------------------------------------------------- registry claims

Registered(b) == b \in DOMAIN documentAdapters
OpenDocsOn(b) == {p \in Paths : BoardPathOf(p) = b /\ docs[p].obj # 0}
ManagerAdapters(b) ==
  {a \in DOMAIN adapters : adapters[a].via = "manager" /\ BoardPathOf(adapters[a].documentUri) = b}
ManagerKanbns(b) ==
  {k \in DOMAIN kanbns : kanbns[k].via = "manager" /\ kanbns[k].boardPath = b}

\* C1: while a board stays registered, every getKanbnForDocument call for it returned
\* the one Kanbn instance the registry holds, backed by the one adapter it holds.
C1_SameInstanceWhileRegistered ==
  \A b \in Boards :
    /\ Cardinality(acquired[b]) <= 1
    /\ Registered(b) =>
         /\ b \in DOMAIN kanbnInstances
         /\ acquired[b] = {<<kanbnInstances[b], documentAdapters[b].adapter>>}

\* A board on which two documents were acquired and are both still registered.
C1_Witness ==
  \E b \in Boards :
    /\ Registered(b)
    /\ Cardinality(documentAdapters[b].documentCallbacks) >= 2
    /\ acquired[b] # {}

\* The adapter-backed Kanbn instances and the adapters in use on board b: those of the
\* resolved editors and of the running commands.
KanbnsInUse(b) ==
  {docs[p].kanbn : p \in {q \in Paths : BoardPathOf(q) = b /\ docs[q].resolved}}
    \cup {ops[w].kanbn : w \in {v \in Owners : v[1] = b /\ ops[v].active}}
AdaptersInUse(b) == {kanbns[k].fs : k \in KanbnsInUse(b)}

\* C2: every editor and command on a board uses one Kanbn instance and one adapter.
C2_OneInstancePerBoard ==
  \A b \in Boards :
    /\ Cardinality(KanbnsInUse(b)) <= 1
    /\ Cardinality(AdaptersInUse(b)) <= 1

\* C3: a board with no open editor document has no registry entry, so the registry
\* never holds more entries than there are boards with an open document.
C3_NoEntryWithoutOpenDocument ==
  /\ \A b \in Boards :
       OpenDocsOn(b) = {} => (b \notin DOMAIN documentAdapters /\ b \notin DOMAIN kanbnInstances)
  /\ Cardinality(DOMAIN documentAdapters)
       <= Cardinality({b \in Boards : OpenDocsOn(b) # {}})

\* C4: what cleanupDocument tore down is never handed out again, and a torn-down
\* adapter has no live-document callbacks left.
C4_FreshAfterTeardown ==
  /\ \A b \in DOMAIN kanbnInstances : kanbnInstances[b] \notin tornDown
  /\ \A b \in DOMAIN documentAdapters : documentAdapters[b].adapter \notin tornDown
  /\ \A a \in tornDown \cap DOMAIN adapters : DOMAIN adapters[a].documentCallbacks = {}

\* A board that was torn down and has been acquired again.
C4_Witness ==
  \E b \in Boards :
    /\ Registered(b)
    /\ b \in DOMAIN kanbnInstances
    /\ \E k \in tornDown \cap DOMAIN kanbns : kanbns[k].boardPath = b
    /\ \E a \in tornDown \cap DOMAIN adapters : BoardPathOf(adapters[a].documentUri) = b

\* C5: acquisitions interleaved with suspended handlers construct one adapter and one
\* Kanbn instance per registered board: the objects the manager made for a board and
\* has not torn down are exactly the pair in the registry.
C5_OneConstructionPerBoard ==
  \A b \in Boards :
    IF Registered(b) /\ b \in DOMAIN kanbnInstances
    THEN /\ ManagerAdapters(b) \ tornDown = {documentAdapters[b].adapter}
         /\ ManagerKanbns(b) \ tornDown = {kanbnInstances[b]}
    ELSE /\ ManagerAdapters(b) \ tornDown = {}
         /\ ManagerKanbns(b) \ tornDown = {}
         /\ ~Registered(b)
         /\ b \notin DOMAIN kanbnInstances

\* A second document was acquired on a board while a command on it was suspended.
C5_Witness ==
  \E b \in Boards :
    /\ ops[CommandOwner(b)].active
    /\ Registered(b)
    /\ \E p \in TaskUris : BoardPathOf(p) = b /\ docs[p].resolved
                           /\ docs[p].kanbn = ops[CommandOwner(b)].kanbn

\* ---------------------------------------------------------------- adapter claims

\* A step that made an adapter call.
CallStep == last'.op # "none"
\* What readFile on the path of the last call returns now, through the adapter called.
ReadBack == readFile(last.a, last.path)
\* The paths registered with the callbacks of a document, in any adapter.
DocumentPaths ==
  {p \in Paths : \E a \in DOMAIN adapters :
                   IsLive(a, p) /\ ~adapters[a].documentCallbacks[p].dummy}
DiskAt(p) == IF p \in DOMAIN disk THEN <<disk[p]>> ELSE <<>>

\* C6: readFile on a path with a live registration reads no disk, and once writeFile
\* applied content c through the registered setter, readFile on that path returns c,
\* whatever the disk holds.
C6_ReadsLastApplied ==
  [][/\ (CallStep /\ last'.op = "readFile" /\ last'.live # {}) => last'.fs = {}
     /\ (CallStep /\ last'.op = "writeFile" /\ last'.setter # <<>>) =>
          (ReadBack.value = last.value /\ ReadBack.fs = {})']_vars

\* A writeFile call on a live path calls the registered setter once with the content
\* and touches no disk.
LiveWriteStaysInBuffer ==
  (CallStep /\ last'.op = "writeFile" /\ last'.live # {}) =>
    /\ last'.setter = <<[cb |-> adapters[last'.a].documentCallbacks[last'.path],
                         data |-> last'.value]>>
    /\ last'.fs = {}
    /\ disk' = disk

LastWriteOnDisk ==
  /\ DiskAt(last.path) = <<last.value>>
  /\ \A a \in DOMAIN adapters :
       ~IsLive(a, last.path) => (readFile(a, last.path).ok
                                 /\ readFile(a, last.path).value = last.value)

\* C8: writeFile on a path with no live registration writes the content to the disk,
\* where an adapter with no registration for the path reads it back, calls no setter,
\* and throws the error of a failed disk write on to its caller.
C8_UnregisteredWriteGoesToDisk ==
  [][(CallStep /\ last'.op = "writeFile" /\ last'.live = {}) =>
       /\ last'.setter = <<>>
       /\ buf' = buf
       /\ last'.fs = {<<"writeFile", last'.path>>}
       /\ IF last'.fsError = ""
          THEN last'.ok /\ LastWriteOnDisk'
          ELSE ~last'.ok /\ last'.error = last'.fsError /\ disk' = disk]_vars

\* An edit of an open task document wrote new content to the index file, which has no
\* registration in the adapter the task document is registered in: it is on the disk.
C8_Witness ==
  /\ last.op = "writeFile"
  /\ last.live = {}
  /\ last.ok
  /\ last.value = "y"
  /\ DiskAt(last.path) = <<"y">>
  /\ last.a \in DOMAIN adapters
  /\ \E q \in TaskUris : IsLive(last.a, q) /\ docs[q].resolved /\ buf[docs[q].obj] # "y"

\* C9: no adapter call on a path with a live registration invokes a disk primitive,
\* and access on such a path succeeds.
C9_NoDiskOnLivePath ==
  last.live # {} => (last.fs = {} /\ (last.op = "access" => last.ok))

\* C9, amended: access, readFile and writeFile on a path with a live registration invoke
\* no disk primitive and access on such a path succeeds; rename and unlink invoke the
\* disk's rename and unlink on their paths, registered or not.
C9_ContentCallsStayOffDisk ==
  /\ (last.op \in {"access", "readFile", "writeFile"} /\ last.live # {}) =>
       (last.fs = {} /\ last.ok)
  /\ last.op = "rename" => last.fs = {<<"rename", last.path>>, <<"rename", last.path2>>}
  /\ last.op = "unlink" => last.fs = {<<"unlink", last.path>>}

\* access succeeded on the path of an open document whose file is not on the disk.
C9_Witness ==
  /\ last.op = "access"
  /\ last.live # {}
  /\ last.ok
  /\ last.path \in DocumentPaths
  /\ last.path \notin DOMAIN disk

\* C10: no open document's buffer was changed through its setter outside a makeEdit of
\* that document that emitted a change record.
C10_EveryBufferChangeRecorded == silent = {}

\* ---------------------------------------------------------------- editor claims

\* The adapters behind the Kanbn instances of the resolved editors of board b.
EditorAdapters(b) ==
  {kanbns[docs[p].kanbn].fs : p \in {q \in Paths : BoardPathOf(q) = b /\ docs[q].resolved}}

\* A board editor and a task editor are open on board b.
BothEditorsOpen(b) ==
  /\ docs[IndexUri(b)].resolved
  /\ \E p \in TaskUris : BoardPathOf(p) = b /\ docs[p].resolved

\* C11: with a board editor and a task editor open on a board, a write to the index or
\* to a task file made by an operation of one editor is what the next read of that path
\* returns through every open editor of the board, and the open document of that path
\* holds it, so that its save cannot overwrite the write with a stale copy.
C11_WriteSeenByEveryEditor ==
  [][(CallStep /\ last'.op = "writeFile" /\ last'.ok /\ BothEditorsOpen(BoardPathOf(last'.path))) =>
       /\ \A a \in EditorAdapters(BoardPathOf(last.path))' :
            readFile(a, last.path)'.value = last'.value
       /\ docs'[last'.path].resolved => buf'[docs'[last'.path].obj] = last'.value]_vars

\* ---------------------------------------------------------------- change record claims

\* The newest record of the document's undo stack.
Top(uri) == records[uri].stack[Len(records[uri].stack)]
\* The record the host's next undo, and its next redo, of the document invokes.
UndoRecord(uri) == records[uri].stack[records[uri].cursor]
RedoRecord(uri) == records[uri].stack[records[uri].cursor + 1]
\* Owner w's makeEdit fires its record in this step and the host is handed it.
Emits(w) == MakeEditEnd(w, MaxDepth) /\ StillOpen(w)

\* C12: the record a makeEdit emits is the newest of the stack, its before snapshot is
\* the buffer's content when makeEdit was called and its after snapshot the content
\* when makeEdit returned; undo makes the buffer equal to the before snapshot of its
\* record and redo makes it equal to the after snapshot.
C12_UndoRedoRoundTrip ==
  [][/\ \A w \in EditOwners :
          /\ (~ops[w].active /\ ops'[w].active) => ops'[w].before = buf[ops'[w].obj]
          /\ Emits(w) =>
               /\ records'[DocOf(w)].cursor = Len(records'[DocOf(w)].stack)
               /\ Top(DocOf(w))'.before = ops[w].before
               /\ Top(DocOf(w))'.after = buf[ops[w].obj]
               /\ buf' = buf
     /\ \A uri \in Paths :
          /\ Undo(uri) => buf'[docs[uri].obj] = UndoRecord(uri).before
          /\ Redo(uri) => buf'[docs[uri].obj] = RedoRecord(uri).after]_vars

\* An edit that changed the buffer was undone and then redone.
C12_Witness ==
  \E uri \in Paths :
    /\ docs[uri].resolved
    /\ records[uri].cursor = 1
    /\ Top(uri).label = UpdateLabel
    /\ Top(uri).before # Top(uri).after
    /\ buf[docs[uri].obj] = Top(uri).after
    /\ signalled = {uri}

RefreshCalls == {<<docs[uri].kanbn, "getIndex">> : uri \in signalled}
\* The makeEdit calls and commands started by this step.
Started == {w \in Owners : ~ops[w].active /\ ops'[w].active}

\* An undo or redo changes the buffer of its document only, signals one refresh of its
\* webview, makes no adapter call, starts no operation and leaves the disk, the
\* registry and the adapters as they are.
UndoRedoFrame(uri) ==
  /\ DOMAIN buf' = DOMAIN buf
  /\ \A o \in DOMAIN buf \ {docs[uri].obj} : buf'[o] = buf[o]
  /\ signalled' = {uri}
  /\ last' = NoCall
  /\ disk' = disk
  /\ Started = {}
  /\ UNCHANGED <<documentAdapters, kanbnInstances, adapters, kanbns, docs>>

\* C14: an undo or redo replaces only its document's buffer and signals one refresh;
\* it writes no disk, calls no task store and changes no registration.
C14_UndoTouchesBufferOnly ==
  [][\A uri \in Paths : (Undo(uri) \/ Redo(uri)) => (UndoRedoFrame(uri) /\ RefreshCalls' = {})]_vars

\* C14, amended: an undo or redo replaces only its document's buffer and signals one
\* refresh, which reads the task store (getIndex); it writes no disk, starts no
\* task-store operation of its own and changes no registration.
C14_UndoTouchesBufferAndRefreshes ==
  [][\A uri \in Paths :
       (Undo(uri) \/ Redo(uri)) =>
         (UndoRedoFrame(uri) /\ RefreshCalls' = {<<docs[uri].kanbn, "getIndex">>})]_vars

\* A task edit that wrote the index file to the disk was undone: the buffer is back at
\* its before snapshot and the index file keeps what the edit wrote.
C14_Witness ==
  \E uri \in TaskUris :
    /\ docs[uri].resolved
    /\ Len(records[uri].stack) > 0
    /\ records[uri].cursor = 0
    /\ Top(uri).before # Top(uri).after
    /\ buf[docs[uri].obj] = Top(uri).before
    /\ signalled = {uri}
    /\ DiskAt(IndexUri(BoardPathOf(uri))) = <<"y">>

\* ---------------------------------------------------------------- debounce claims

\* A kanbn.textChange of the task editor at uri waits for its timer: its payload has
\* reached neither the task store nor the buffer.
Pending(uri) ==
  /\ docs[uri].obj \in DOMAIN debounced
  /\ debounced[docs[uri].obj].armed

\* C15: no text change is waiting for its debounce timer when the document is saved or
\* disposed, and a kanbn.blur or kanbn.save message clears the timer and starts its
\* edit in the same step.
C15_NoTextChangeDropped ==
  [][\A uri \in TaskUris :
       /\ (Save(uri) \/ DisposeTask(uri)) => ~Pending(uri)
       /\ \A label \in LabelsOf(uri) :
            MakeEditBegin(uri, label) => (~Pending(uri)' /\ ops'[uri].active)]_vars

\* The debounce timers: the makeEdit calls they started.
TimerOwners == EditOwners \ Paths

\* C16: a scheduled call that was cancelled before its timer fired never runs, and an
\* edit a timer started stays in flight, with the document object it works on, through
\* every step but its own return: no cancel, blur, save or dispose ends or changes it.
C16_CancelStopsOnlyPendingCall ==
  [][/\ \A o \in DOMAIN debounced : TimerFire(o) => ~debounced[o].cancelled
     /\ \A o \in DOMAIN debounced : debounced[o].cancelled => ~debounced[o].armed
     /\ \A w \in TimerOwners :
          ops[w].active =>
            \/ MakeEditEnd(w, 0)
            \/ MakeEditThrow(w)
            \/ /\ ops'[w] = [ops[w] EXCEPT !.wrote = ops'[w].wrote]
               /\ ops[w].obj \in DOMAIN buf']_vars

\* A kanbn.blur message cancelled the pending call and started its own edit while the
\* edit an earlier timer started is still in flight.
C16_Witness ==
  \E uri \in TaskUris :
    /\ docs[uri].resolved
    /\ debounced[docs[uri].obj].cancelled
    /\ ops[uri].active
    /\ ops[TimerOwner(uri)].active
    /\ ops[TimerOwner(uri)].obj = docs[uri].obj

\* ---------------------------------------------------------------- serialisation claims

\* The task-store operations in flight on board b: updateTask or createTask of a task
\* editor, moveTask or sort of a board editor, archiveTask or restoreTask of a command.
InFlight(b) == {w \in Owners : w[1] = b /\ ops[w].active}

\* C17: at most one task-store operation that rewrites the index is in flight per board.
C17_OneOperationPerBoard == \A b \in Boards : Cardinality(InFlight(b)) <= 1

\* ---------------------------------------------------------------- deregistration claims

\* The adapter the manager holds for the board of uri, in which uri is registered.
RegisteredIn(uri) ==
  IF /\ BoardPathOf(uri) \in DOMAIN documentAdapters
     /\ uri \in documentAdapters[BoardPathOf(uri)].documentCallbacks
  THEN {documentAdapters[BoardPathOf(uri)].adapter}
  ELSE {}

\* readFile, writeFile and access of adapter a on path p go to the disk and call no
\* getter or setter.
GoesToDisk(a, p) ==
  /\ ~IsLive(a, p)
  /\ readFile(a, p).fs = {<<"readFile", p>>}
  /\ readFile(a, p).value = (IF p \in DOMAIN disk THEN disk[p] ELSE "")
  /\ access(a, p).fs = {<<"access", p>>}
  /\ \A c \in Contents :
       /\ writeFile(a, p, c, "").fs = {<<"writeFile", p>>}
       /\ writeFile(a, p, c, "").setter = <<>>

\* The steps that register path p in an adapter which exists already.
Registers(p) ==
  \/ p \in TaskUris /\ ResolveTask(p)
  \/ p \in IndexUris /\ (CommandStart(BoardPathOf(p)) \/ FileWatcherChange(BoardPathOf(p)))

\* C18: once cleanupDocument has removed a document's callbacks from the adapter, the
\* adapter's readFile, writeFile and access on the path go to the disk and call neither
\* getter nor setter; this lasts until a step registers the path again; and the calls
\* made on a path without registration invoke their disk primitive only.
C18_RemovedPathGoesToDisk ==
  [][/\ \A uri \in TaskUris : \A a \in RegisteredIn(uri) :
          DisposeTask(uri) => GoesToDisk(a, uri)'
     /\ \A a \in DOMAIN adapters \cap DOMAIN adapters' : \A p \in Paths :
          (~IsLive(a, p) /\ IsLive(a, p)') => Registers(p)
     /\ (CallStep /\ last'.op \in {"readFile", "writeFile", "access"} /\ last'.live = {}) =>
          /\ last'.fs = {<<last'.op, last'.path>>}
          /\ last'.setter = <<>>
          /\ buf' = buf]_vars

\* A command read the file of a task whose document was disposed, through the adapter
\* that document had been registered in: the content came from the disk.
C18_Witness ==
  /\ last.op = "readFile"
  /\ last.path \in TaskUris
  /\ last.a \in tornDown \cup {documentAdapters[b].adapter : b \in DOMAIN documentAdapters}
  /\ adapters[last.a].documentUri = last.path
  /\ last.live = {}
  /\ last.fs = {<<"readFile", last.path>>}
  /\ docs[last.path].obj = 0

\* ---------------------------------------------------------------- registration claims

\* The registrations of adapter a other than that of path p.
OtherRegistrations(a, p) ==
  [q \in DOMAIN adapters[a].documentCallbacks \ {p} |-> adapters[a].documentCallbacks[q]]

\* C19: however often a path has been registered, a registration leaves the path with
\* one entry whose getter and setter are those just passed and leaves the other paths'
\* entries alone, and one removal or cleanup leaves the path without an entry.
C19_LatestRegistrationOnly ==
  [][/\ \A a \in DOMAIN adapters, p \in Paths :
          /\ \A cb \in CallbacksAt :
               LET after == addDocumentCallbacks(a, p, cb)[a].documentCallbacks
               IN /\ DOMAIN after = DOMAIN adapters[a].documentCallbacks \cup {p}
                  /\ after[p] = cb
          /\ p \notin DOMAIN removeDocumentCallbacks(a, p)[a].documentCallbacks
     /\ \A uri \in Paths, cb \in CallbacksAt : \A a \in DOMAIN adapters' :
          (Register(uri, cb) /\ a = last'.a) =>
            /\ uri \in documentAdapters'[BoardPathOf(uri)].documentCallbacks
            /\ adapters'[a].documentCallbacks[uri] = cb
            /\ readFile(a, uri)'.value = getContent(cb)
            /\ \A c \in Contents : writeFile(a, uri, c, "")'.setter = <<[cb |-> cb, data |-> c]>>
            /\ a \in DOMAIN adapters => OtherRegistrations(a, uri)' = OtherRegistrations(a, uri)
     /\ \A uri \in Paths : \A a \in RegisteredIn(uri) :
          Cleanup(uri) =>
            /\ ~IsLive(a, uri)'
            /\ RegisteredIn(uri)' = {}]_vars

\* getKanbnForDocument was called for a path that was registered already, with callbacks
\* other than the registered ones, and the adapter holds the new ones.
C19_Witness ==
  /\ last.op = "getKanbnForDocument"
  /\ last.replaced # <<>>
  /\ last.replaced[1] # adapters[last.a].documentCallbacks[last.path]
  /\ Cardinality(DOMAIN adapters[last.a].documentCallbacks) = 2

\* C20: every board with a registry entry has at least one registered document, and the
\* cleanup of a board's last document deletes the board's entry in the same step.
C20_EntryHasDocument ==
  [][/\ \A b \in DOMAIN documentAdapters' : documentAdapters'[b].documentCallbacks # {}
     /\ \A uri \in TaskUris :
          (/\ DisposeTask(uri)
           /\ Registered(BoardPathOf(uri))
           /\ documentAdapters[BoardPathOf(uri)].documentCallbacks = {uri})
          => ~Registered(BoardPathOf(uri))']_vars

\* The last document of one board was cleaned up and the board's entry is gone, while
\* another board keeps its entry with a document.
C20_Witness ==
  /\ \E a \in tornDown \cap DOMAIN adapters : ~Registered(BoardPathOf(adapters[a].documentUri))
  /\ \E b \in DOMAIN documentAdapters : documentAdapters[b].documentCallbacks # {}

\* ---------------------------------------------------------------- handler failure claims

\* The labels of the handlers whose editCallback wraps its task-store call in try/catch
\* and shows the message of a caught Error.
CatchingLabels == {MoveLabel}

\* C21: a task-store failure inside a message handler is caught in that handler (no
\* makeEdit of a handler without a catch rejects), and the failure leaves the manager's
\* registrations and the adapters' live documents as they were.
C21_FailureCaughtInHandler ==
  [][\A w \in EditOwners :
       MakeEditThrow(w) => /\ ops[w].label \in CatchingLabels
                           /\ UNCHANGED <<documentAdapters, kanbnInstances, adapters>>]_vars

\* ---------------------------------------------------------------- lazy construction claims

\* The Kanbn instances the document constructors built: `new Kanbn(boardPath)` on the
\* default file system, held in _kanbn from the document's construction until
\* initializeForWebview replaces it. Each is named by its document object.
ConstructorKanbns(b) ==
  {docs[p].obj : p \in {q \in Paths : BoardPathOf(q) = b /\ docs[q].obj # 0 /\ ~docs[q].resolved}}

\* The adapters and task-store instances that exist for board b.
InstancesOf(b) ==
  {<<"adapter", a>> : a \in {x \in DOMAIN adapters : BoardPathOf(adapters[x].documentUri) = b}}
    \cup {<<"kanbn", k>> : k \in {x \in DOMAIN kanbns : kanbns[x].boardPath = b}}
    \cup {<<"kanbn", o>> : o \in ConstructorKanbns(b)}

\* A command starts on board b or an editor of one of its documents is resolved.
NeededOn(b) ==
  \/ CommandStart(b)
  \/ \E uri \in TaskUris : BoardPathOf(uri) = b /\ ResolveTask(uri)
  \/ \E uri \in IndexUris : BoardPathOf(uri) = b /\ ResolveBoard(uri)

\* C22: an adapter or a task-store instance is constructed for a board only by a step in
\* which a command runs on the board or an editor of the board is resolved.
C22_ConstructedOnlyWhenNeeded ==
  [][\A b \in Boards : ~(InstancesOf(b)' \subseteq InstancesOf(b)) => NeededOn(b)]_vars

\* ---------------------------------------------------------------- adapter method claims

\* access of the fully virtual adapter would succeed on p.
VExists(p) ==
  \/ isMainIndexFile(p)
  \/ p \in DOMAIN adapters[Virtual].fileExistsMap
  \/ p \in DOMAIN disk

\* C23: in both variants mkdir of a directory that exists already succeeds, and a mkdir
\* after a successful mkdir of the same directory changes nothing; unlink of a path
\* that does not exist succeeds and changes nothing.
C23_MkdirUnlinkIdempotent ==
  [][/\ \A d \in FsDirs :
          /\ (last'.op = "mkdir" /\ VExists(d) /\ VMkdir(d)) => last'.ok
          /\ (last'.op = "mkdir" /\ d \in DOMAIN adapters[Virtual].fileExistsMap /\ VMkdir(d)) =>
               UNCHANGED <<adapters, disk, buf>>
          /\ \A recursive \in BOOLEAN :
               (/\ last'.op = "mkdir"
                /\ d \in DOMAIN disk
                /\ Perform(Caller, mkdir(DiskBacked, d, recursive))) =>
                 last'.ok /\ UNCHANGED <<adapters, disk, buf>>
     /\ \A p \in FsFiles :
          /\ (last'.op = "unlink" /\ ~VExists(p) /\ VUnlink(p)) =>
               last'.ok /\ UNCHANGED <<adapters, disk, buf>>
          /\ (last'.op = "unlink" /\ p \notin DOMAIN disk /\ Perform(Caller, unlink(DiskBacked, p))) =>
               last'.ok /\ UNCHANGED <<adapters, disk, buf>>]_vars

\* The disk-backed mkdir was called for a directory that exists, fs.promises.mkdir
\* rejected with EEXIST and the call succeeded all the same.
C23_Witness ==
  /\ last.op = "mkdir"
  /\ last.a = DiskBacked
  /\ last.fsError = "EEXIST"
  /\ last.ok
  /\ last.path \in DOMAIN disk

\* C24: in both variants rename of an old path that does not exist fails with ENOENT
\* and leaves the disk, the virtual maps and the buffers unchanged.
C24_RenameMissingFails ==
  [][\A p \in FsFiles, q \in FsFiles :
       /\ (last'.op = "rename" /\ ~VExists(p) /\ VRename(p, q)) =>
            /\ ~last'.ok
            /\ last'.error = "ENOENT"
            /\ UNCHANGED <<adapters, disk, buf>>
       /\ (/\ last'.op = "rename"
           /\ p \notin DOMAIN disk
           /\ Perform(Caller, rename(DiskBacked, p, q))) =>
            /\ ~last'.ok
            /\ last'.error = "ENOENT"
            /\ UNCHANGED <<adapters, disk, buf>>]_vars

\* The virtual rename was called for an old path that exists neither in the maps nor
\* on the disk, and failed.
C24_Witness ==
  /\ last.op = "rename"
  /\ last.a = Virtual
  /\ ~VExists(last.path)
  /\ last.error = "ENOENT"

\* The paths of s, as a set.
Range(s) == {s[i] : i \in DOMAIN s}

\* C25: glob of the fully virtual adapter returns exactly the paths matching the pattern
\* that are on the disk or in the in-memory entry map, each once.
C25_GlobIsUnion ==
  [][\A pattern \in Patterns :
       VGlob(pattern) =>
         /\ Range(last'.listed) =
              RealGlob(pattern) \cup
                {p \in DOMAIN adapters[Virtual].fileContentMap :
                   /\ Parent(p) = pattern.directory
                   /\ IF pattern.filePattern = "*.md" THEN EndsWithMd(p)
                                                      ELSE p[Len(p)] = pattern.filePattern}
         /\ Cardinality(Range(last'.listed)) = Len(last'.listed)]_vars

\* ---------------------------------------------------------------- path resolution claims

Resolved == last.op = "resolveBoardPath"
\* The raw path is empty or blank; it is relative (not blank, no leading ~, not absolute).
Blank(s) == trim(s) = <<>>
Tilde(s) == s # <<>> /\ s[1] = "~"
Relative(s) == ~Blank(s) /\ ~Tilde(s) /\ ~isAbsolute(s)
\* The segments a path string names, and those left once `.` is dropped and each `..`
\* has removed the segment before it.
Segments(s) == SelectSeq(Split(s), LAMBDA seg : seg # <<>>)
Folded(segs, relative) == normalizeString(segs, <<>>, relative)
\* No `.` or `..` segment and no doubled separator.
Normalized(s) ==
  /\ \A i \in DOMAIN Split(s) : Split(s)[i] \notin {<<".">>, <<"..">>}
  /\ \A i \in 1..(Len(s) - 1) : ~(s[i] = "/" /\ s[i + 1] = "/")

\* C26: a relative raw path with a base path that is not null resolves to the join of
\* the base and the raw path, with each `..` removing the segment before it, those of
\* the base included.
C26_RelativeJoinsBase ==
  (Resolved /\ Relative(last.path) /\ last.path2 # NullBase) =>
    /\ last.ok
    /\ isAbsolute(last.listed) = isAbsolute(last.path2)
    /\ Segments(last.listed) =
         Folded(Split(last.path2) \o Split(last.path), ~isAbsolute(last.path2))

\* C27: an absolute raw path resolves to itself normalized, a raw path with a leading ~
\* to the home directory followed by the rest, normalized; the result is absolute and
\* the same for every base path, null included.
C27_AbsoluteIgnoresBase ==
  (Resolved /\ ~Blank(last.path) /\ (isAbsolute(last.path) \/ Tilde(last.path))) =>
    /\ last.ok
    /\ isAbsolute(last.listed)
    /\ Normalized(last.listed)
    /\ Segments(last.listed) =
         Folded(IF Tilde(last.path) THEN Segments(Homedir) \o Split(Tail(last.path))
                                    ELSE Split(last.path), FALSE)
    /\ \A basePath \in BasePaths \cup {NullBase} :
         resolveBoardPath(last.path, basePath) = Returns(last.listed)

\* `~/a` was resolved with no base path and gave the home directory's a.
C27_Witness ==
  /\ Resolved
  /\ last.path = <<"~", "/", "a">>
  /\ last.path2 = NullBase
  /\ last.ok
  /\ last.listed = Homedir \o <<"/", "a">>

\* C28: an empty or blank raw path resolves to the base path for every base path that
\* is not null, and fails with 'Empty path provided' exactly when the base path is null.
C28_BlankReturnsBase ==
  (Resolved /\ Blank(last.path)) =>
    IF last.path2 # NullBase
    THEN last.ok /\ last.listed = last.path2
    ELSE ~last.ok /\ last.error = "Empty path provided"

\* C29: a relative raw path with a null base path fails with the error that names the
\* path and asks for an absolute or ~ path, and returns nothing.
C29_RelativeNeedsBase ==
  (Resolved /\ Relative(last.path) /\ last.path2 = NullBase) =>
    /\ ~last.ok
    /\ last.listed = <<>>
    /\ last.error = "Relative path \"" \o Text(last.path)
                      \o "\" cannot be used in global settings. "
                      \o "Use an absolute path or ~/ for home directory."

\* `a/a` was resolved with no base path and the call failed.
C29_Witness ==
  /\ Resolved
  /\ last.path = <<"a", "/", "a">>
  /\ last.path2 = NullBase
  /\ ~last.ok

\* C30: every value resolveBoardPath returns is an absolute, normalized path, and
\* resolving it again with any base path returns it unchanged.
C30_ResultAbsoluteNormalized ==
  (Resolved /\ last.ok) =>
    /\ isAbsolute(last.listed)
    /\ Normalized(last.listed)
    /\ \A basePath \in BasePaths \cup {NullBase} :
         resolveBoardPath(last.listed, basePath) = Returns(last.listed)

\* ---------------------------------------------------------------- suspension claims

\* C31: no disk write of an adapter to a path completes while the path has a live
\* registration in that adapter, whatever was registered or released while the call
\* was suspended on its disk write.
C31_NoDiskWriteWhileLive ==
  (last.op = "writeFile" /\ <<"writeFile", last.path>> \in last.fs /\ last.fsError = "") =>
    last.live = {}

\* ---------------------------------------------------------------- debounce machine claims

\* The state of the machine {Idle, Pending(payload)} the closure of document object o is in.
Machine(o) ==
  IF debounced[o].armed THEN <<"Pending", debounced[o].args>> ELSE <<"Idle">>

\* C32: the debounce of a task editor is the machine {Idle, Pending(payload)}. No timer
\* is pending beside the one the closure holds; a textChange makes the machine
\* Pending with its payload and starts no edit; a timer firing starts one edit, with the
\* pending payload, and leaves the machine Idle; a blur or save leaves the machine Idle
\* and starts its edit in the same step; no other step changes the machine or starts an
\* edit of a timer.
C32_DebounceIsTwoStateMachine ==
  [][/\ \A o \in DOMAIN debounced' : ~debounced'[o].stray
     /\ \A uri \in TaskUris, taskData \in Contents :
          TextChange(uri, taskData) =>
            /\ Machine(docs[uri].obj)' = <<"Pending", taskData>>
            /\ Started = {}
     /\ \A o \in DOMAIN debounced :
          TimerFire(o) =>
            /\ Machine(o) = <<"Pending", debounced[o].args>>
            /\ Machine(o)' = <<"Idle">>
            /\ Started = {TimerOwner(debounced[o].uri)}
            /\ ops'[TimerOwner(debounced[o].uri)].payload = debounced[o].args
            /\ ops'[TimerOwner(debounced[o].uri)].obj = o
     /\ \A uri \in TaskUris : \A label \in LabelsOf(uri) :
          MakeEditBegin(uri, label) =>
            /\ Machine(docs[uri].obj)' = <<"Idle">>
            /\ Started = {uri}
            /\ ops'[uri].label = label
     /\ \A o \in DOMAIN debounced \cap DOMAIN debounced' :
          Machine(o)' # Machine(o) =>
            \/ TimerFire(o)
            \/ \E taskData \in Contents : TextChange(debounced[o].uri, taskData)
            \/ \E label \in LabelsOf(debounced[o].uri) : MakeEditBegin(debounced[o].uri, label)
     /\ \A w \in TimerOwners \cap Started : \E o \in DOMAIN debounced : TimerFire(o)]_vars

\* Two text changes came in a burst, the second with another payload than the first, and
\* the timer has fired once: one edit is in flight, with the second payload, and no
\* timer is pending.
C32_Witness ==
  \E uri \in TaskUris :
    /\ docs[uri].resolved
    /\ debounced[docs[uri].obj].replaced = <<"x">>
    /\ ~debounced[docs[uri].obj].armed
    /\ ops[TimerOwner(uri)].active
    /\ ops[TimerOwner(uri)].payload = "y"
    /\ ~ops[uri].active

\* ---------------------------------------------------------------- read-your-writes claims

\* C33: once writeFile on a path, live or not, has returned, readFile on that path
\* through the same adapter returns the content written, also for a path registered by
\* getKanbnForBoard.
C33_ReadYourWrites ==
  [][(CallStep /\ last'.op = "writeFile" /\ last'.ok) =>
       (ReadBack.ok /\ ReadBack.value = last.value)']_vars

\* ---------------------------------------------------------------- disposal claims

\* C34: no edit is started for a document that has been disposed (no timer pending at
\* dispose time fires its edit afterwards), and no operation in flight for a disposed
\* document writes a file.
C34_NoEditAfterDispose ==
  [][/\ \A o \in DOMAIN debounced : TimerFire(o) => docs[debounced[o].uri].obj = o
     /\ \A w \in EditOwners \cap Started : docs'[DocOf(w)].obj = ops'[w].obj
     /\ \A w \in EditOwners, p \in Paths, c \in Contents :
          (last'.op = "writeFile" /\ WriteFile(w, p, c, "")) => StillOpen(w)]_vars

\* ---------------------------------------------------------------- record chain claims

\* C35: the change records a document emits form a chain: the before snapshot of each
\* record is the after snapshot of the record emitted just before it, whatever messages
\* and timer firings interleave.
C35_RecordsFormChain ==
  [][\A w \in EditOwners :
       (Emits(w) /\ records[DocOf(w)].stack # <<>>) =>
         ChangeRecord(w).before = Top(DocOf(w)).after]_vars

\* ---------------------------------------------------------------- registry agreement claims

\* C36: after every manager operation the boards with a Kanbn instance are the boards
\* with an adapter entry, and the paths live in a board's adapter are the document keys
\* the manager holds for the board.
C36_RegistryAndAdapterAgree ==
  /\ DOMAIN kanbnInstances = DOMAIN documentAdapters
  /\ \A b \in DOMAIN documentAdapters :
       DOMAIN adapters[documentAdapters[b].adapter].documentCallbacks
         = documentAdapters[b].documentCallbacks

\* cleanupDocument released one of two registered documents of a board: the board keeps
\* its entry, and the other document is the one key and the one live path.
C36_Witness ==
  /\ last.op = "cleanupDocument"
  /\ last.replaced # <<>>
  /\ BoardPathOf(last.path) \in DOMAIN documentAdapters
  /\ Cardinality(documentAdapters[BoardPathOf(last.path)].documentCallbacks) = 1
  /\ last.path \notin documentAdapters[BoardPathOf(last.path)].documentCallbacks

\* ---------------------------------------------------------------- cleanup frame claims

\* C37: cleanupDocument for a document that is not registered on the board (never
\* acquired, released already, or the board has no entry) leaves the registry, the
\* adapters and the Kanbn instances as they are.
C37_CleanupOfUnregisteredIsNoOp ==
  [][\A uri \in Paths :
       (last'.op = "cleanupDocument" /\ RegisteredIn(uri) = {} /\ Cleanup(uri)) =>
         UNCHANGED <<documentAdapters, kanbnInstances, adapters, kanbns>>]_vars

\* cleanupDocument was called for a document that is not registered on a board which
\* has another document registered, and the board keeps its entry.
C37_Witness ==
  /\ last.op = "cleanupDocument"
  /\ last.replaced = <<>>
  /\ BoardPathOf(last.path) \in DOMAIN documentAdapters
  /\ BoardPathOf(last.path) \in DOMAIN kanbnInstances
  /\ documentAdapters[BoardPathOf(last.path)].documentCallbacks # {}
  /\ last.path \notin documentAdapters[BoardPathOf(last.path)].documentCallbacks
  /\ tornDown = {}

\* ---------------------------------------------------------------- path spelling claims

\* The keys under which the adapter holds a registration.
RegisteredKeys ==
  IF DiskBacked \in DOMAIN adapters THEN DOMAIN adapters[DiskBacked].documentCallbacks ELSE {}

\* C38: a registered document is live for access, readFile and writeFile under every
\* spelling of its path: the key a lookup computes is the key the registration is
\* stored under, whatever the spelling of the registering URI's path and of the path
\* looked up.
C38_LiveUnderEverySpelling ==
  /\ \A key \in RegisteredKeys : \A q \in FilePaths(PlatformOf(DiskBacked)) :
       normalizePath(PlatformOf(DiskBacked), q) = key
  /\ (last.op \in {"access", "readFile", "writeFile"} /\ RegisteredKeys # {}) =>
       (last.live # {} /\ last.fs = {})

\* ---------------------------------------------------------------- virtual removal claims

\* readFile of the fully virtual adapter would return content for p.
VReadable(p) ==
  \/ isMainIndexFile(p)
  \/ p \in DOMAIN adapters[Virtual].fileContentMap
  \/ p \in DOMAIN disk /\ disk[p] # DirEntry

\* glob of the fully virtual adapter would return p for the pattern.
VListed(pattern, p) ==
  \/ /\ pattern.filePattern = "*.md"
     /\ p \in DOMAIN adapters[Virtual].fileContentMap
     /\ StartsWith(p, pattern.directory) /\ EndsWithMd(p)
  \/ p \in RealGlob(pattern) /\ p \notin DOMAIN adapters[Virtual].fileContentMap

\* C39: in the fully virtual adapter, once unlink of a path has returned, access and
\* readFile of the path fail and no glob returns it, and once a rename has returned,
\* access of the old path fails, whether or not the disk holds a file at the path.
C39_UnlinkedPathIsGone ==
  [][/\ \A p \in FsFiles :
          (last'.op = "unlink" /\ last'.a = Virtual /\ VUnlink(p)) =>
            /\ ~VExists(p)'
            /\ ~VReadable(p)'
            /\ \A pattern \in Patterns : ~VListed(pattern, p)'
     /\ \A p \in FsFiles : \A q \in FsFiles \ {p} :
          (last'.op = "rename" /\ last'.a = Virtual /\ last'.ok /\ VRename(p, q)) =>
            ~VExists(p)']_vars

====
